---------------------------- MODULE Spec2Model ----------------------------
(***************************************************************************)
(* A model of the agent/chat bridge: the PTY session manager (PTYAgent and *)
(* the older ClineTelegramBot), the terminal-output classifier, the        *)
(* bounded output queue with get_output, and the AgentChatBridge           *)
(* dispatcher.                                                             *)
(*                                                                         *)
(* Text is modelled character by character.  A character is a one-element  *)
(* string; the control character 0x1B is written "ESC" and a character     *)
(* outside ASCII is written "U+XXXX".  A chunk of terminal output is the   *)
(* record [pad |-> n, text |-> t], standing for the Python string          *)
(* "#" * n + t, so that chunks of several thousand characters stay small.  *)
(***************************************************************************)
EXTENDS Integers, Sequences, FiniteSets, TLC

(***************************************************************************)
(* Characters and their code points.                                       *)
(***************************************************************************)
AsciiPrintable ==
    <<" ", "!", "\"", "#", "$", "%", "&", "'", "(", ")", "*", "+", ",", "-", ".", "/", "0",
    "1", "2", "3", "4", "5", "6", "7", "8", "9", ":", ";", "<", "=", ">", "?", "@", "A", "B",
    "C", "D", "E", "F", "G", "H", "I", "J", "K", "L", "M", "N", "O", "P", "Q", "R", "S", "T",
    "U", "V", "W", "X", "Y", "Z", "[", "\\", "]", "^", "_", "U+0060", "a", "b", "c", "d", "e", "f",
    "g", "h", "i", "j", "k", "l", "m", "n", "o", "p", "q", "r", "s", "t", "u", "v", "w", "x",
    "y", "z", "{", "|", "}", "~">>

ControlChars  == << <<"U+0003", 3>>, <<"\t", 9>>, <<"\n", 10>>, <<"\r", 13>>, <<"ESC", 27>> >>

NonAsciiChars ==
    << <<"U+00AD", 173>>, <<"U+00AE", 174>>, <<"U+00AF", 175>>, <<"U+00B0", 176>>, <<"U+00C6",
    198>>, <<"U+00C7", 199>>, <<"U+00C9", 201>>, <<"U+00D8", 216>>, <<"U+00E2", 226>>,
    <<"U+00EE", 238>>, <<"U+00EF", 239>>, <<"U+0192", 402>>, <<"U+201A", 8218>>, <<"U+201D",
    8221>>, <<"U+2022", 8226>>, <<"U+221E", 8734>>, <<"U+2260", 8800>>, <<"U+2502", 9474>>,
    <<"U+2503", 9475>>, <<"U+256D", 9581>>, <<"U+256E", 9582>>, <<"U+256F", 9583>>, <<"U+2570",
    9584>> >>

SpecialChars == ControlChars \o NonAsciiChars

Chars == {AsciiPrintable[i] : i \in 1..Len(AsciiPrintable)}
            \cup {SpecialChars[i][1] : i \in 1..Len(SpecialChars)}

\* ord(c)
Ord ==
    [c \in Chars |->
        IF \E i \in 1..Len(AsciiPrintable) : AsciiPrintable[i] = c
        THEN 31 + (CHOOSE i \in 1..Len(AsciiPrintable) : AsciiPrintable[i] = c)
        ELSE SpecialChars[CHOOSE i \in 1..Len(SpecialChars) : SpecialChars[i][1] = c][2]]

\* str.lower() / re.IGNORECASE on one character (ASCII letters)
Lower ==
    [c \in Chars |-> IF Ord[c] \in 65..90 THEN AsciiPrintable[Ord[c] + 32 - 31] ELSE c]

\* \s of a regular expression, and the characters str.strip() removes
IsSpace(c) == c \in {" ", "\t", "\n", "\r"}

(***************************************************************************)
(* strip_ansi_codes: re.sub(r"\x1B(?:[@-Z\\-_]|\[[0-?]*[ -/]*[@-~])", "")   *)
(* The three classes of the CSI branch are disjoint, so the greedy match   *)
(* never backtracks into a shorter one.                                    *)
(***************************************************************************)
IsEscFinal(c) == Ord[c] \in 64..90 \/ Ord[c] \in 92..95     \* [@-Z\\-_]
IsCsiParam(c) == Ord[c] \in 48..63                           \* [0-?]
IsCsiInter(c) == Ord[c] \in 32..47                           \* [ -/]
IsCsiFinal(c) == Ord[c] \in 64..126                          \* [@-~]

RECURSIVE SkipCsiParams(_, _)
SkipCsiParams(s, i) ==
    IF i <= Len(s) /\ IsCsiParam(s[i]) THEN SkipCsiParams(s, i + 1) ELSE i

RECURSIVE SkipCsiInters(_, _)
SkipCsiInters(s, i) ==
    IF i <= Len(s) /\ IsCsiInter(s[i]) THEN SkipCsiInters(s, i + 1) ELSE i

\* The position after the escape sequence that starts at s[i]; 0 when none does.
AnsiMatchEnd(s, i) ==
    IF s[i] # "ESC" \/ i = Len(s) THEN 0
    ELSE IF IsEscFinal(s[i + 1]) THEN i + 2
    ELSE IF s[i + 1] = "["
         THEN LET j == SkipCsiInters(s, SkipCsiParams(s, i + 2))
              IN  IF j <= Len(s) /\ IsCsiFinal(s[j]) THEN j + 1 ELSE 0
         ELSE 0

RECURSIVE StripAnsiFrom(_, _)
StripAnsiFrom(s, i) ==
    IF i > Len(s) THEN << >>
    ELSE LET e == AnsiMatchEnd(s, i)
         IN  IF e > 0 THEN StripAnsiFrom(s, e)
             ELSE <<s[i]>> \o StripAnsiFrom(s, i + 1)

\* on a character sequence: every match starts with ESC, so a text without ESC is
\* returned as it is
strip_ansi_text(s) ==
    IF \A i \in 1..Len(s) : s[i] # "ESC" THEN s ELSE StripAnsiFrom(s, 1)

\* on a chunk: the padding "#" is no ESC and precedes the text
strip_ansi_codes(chunk) == [pad |-> chunk.pad, text |-> strip_ansi_text(chunk.text)]

(***************************************************************************)
(* Python strings as chunks: len() and str.strip().                        *)
(***************************************************************************)
RECURSIVE TrimLeft(_)
TrimLeft(s) ==
    IF s # << >> /\ IsSpace(Head(s)) THEN TrimLeft(Tail(s)) ELSE s

RECURSIVE TrimRight(_)
TrimRight(s) ==
    IF s # << >> /\ IsSpace(s[Len(s)]) THEN TrimRight(SubSeq(s, 1, Len(s) - 1)) ELSE s

PyLen(chunk) == chunk.pad + Len(chunk.text)

PyStrip(chunk) ==
    IF chunk.pad > 0
    THEN [pad |-> chunk.pad, text |-> TrimRight(chunk.text)]
    ELSE [pad |-> 0, text |-> TrimLeft(TrimRight(chunk.text))]

EmptyStr == [pad |-> 0, text |-> << >>]

(***************************************************************************)
(* The subset of regular expressions the classifier uses: literal segments *)
(* (each position a set of characters) joined by ".*", searched anywhere   *)
(* (re.search), optionally closed by "\s*$", optionally re.IGNORECASE.     *)
(* "." matches no newline.  The search is over the text of a chunk; the    *)
(* padding "#" is in no segment and only ever extends a ".*" or precedes   *)
(* the match.                                                              *)
(***************************************************************************)
Lit(word) == [i \in 1..Len(word) |-> {word[i]}]

Pat(segs, anchored, icase) == [segs |-> segs, anchored |-> anchored, icase |-> icase]

SegAt(s, seg, q, icase) ==
    /\ q + Len(seg) - 1 <= Len(s)
    /\ \A k \in 1..Len(seg) :
          (IF icase THEN Lower[s[q + k - 1]] ELSE s[q + k - 1]) \in seg[k]

NoNewline(s, from, to) == \A i \in from..to : s[i] # "\n"

AllSpace(s, from) == \A i \in from..Len(s) : IsSpace(s[i])

RECURSIVE MatchFrom(_, _, _, _)
MatchFrom(s, pat, k, p) ==
    \E q \in p..(Len(s) + 1) :
        /\ k > 1 => NoNewline(s, p, q - 1)
        /\ SegAt(s, pat.segs[k], q, pat.icase)
        /\ IF k = Len(pat.segs)
           THEN pat.anchored => AllSpace(s, q + Len(pat.segs[k]))
           ELSE MatchFrom(s, pat, k + 1, q + Len(pat.segs[k]))

\* re.search(pattern, chunk)
re_search(pat, chunk) == MatchFrom(chunk.text, pat, 1, 1)

\* "needle in chunk" for a str needle without "#"
Contains(chunk, word) == re_search(Pat(<<Lit(word)>>, FALSE, FALSE), chunk)

\* chunk.lower()
PyLower(chunk) == [pad |-> chunk.pad, text |-> [i \in 1..Len(chunk.text) |-> Lower[chunk.text[i]]]]

(***************************************************************************)
(* Literal words of the patterns and keyword lists, in lower case where    *)
(* the match ignores case.                                                 *)
(***************************************************************************)
W_bracket_yn == <<"[", "y", "/", "n", "]">>
W_paren_yn == <<"(", "y", "/", "n", ")">>
W_continue_q == <<"c", "o", "n", "t", "i", "n", "u", "e", "?">>
W_proceed_q == <<"p", "r", "o", "c", "e", "e", "d", "?">>
W_are_you_sure_q == <<"a", "r", "e", " ", "y", "o", "u", " ", "s", "u", "r", "e", "?">>
W_enter_sp == <<"e", "n", "t", "e", "r", " ">>
W_colon == <<":">>
W_password_colon == <<"p", "a", "s", "s", "w", "o", "r", "d", ":">>
W_press == <<"p", "r", "e", "s", "s">>
W_enter == <<"e", "n", "t", "e", "r">>
W_to == <<"t", "o">>
W_continue == <<"c", "o", "n", "t", "i", "n", "u", "e">>
W_any == <<"a", "n", "y">>
W_key == <<"k", "e", "y">>
W_lbracket == <<"[">>
W_rbracket == <<"]">>
W_press_sp == <<"p", "r", "e", "s", "s", " ">>
W_to_exit == <<"t", "o", " ", "e", "x", "i", "t">>
W_sp_to_return == <<" ", "t", "o", " ", "r", "e", "t", "u", "r", "n">>
W_cline_cli == <<"c", "l", "i", "n", "e", " ", "c", "l", "i">>
W_slash_plan == <<"/", "p", "l", "a", "n">>
W_slash_act == <<"/", "a", "c", "t">>
W_switch_to_plan == <<"s", "w", "i", "t", "c", "h", " ", "t", "o", " ", "p", "l", "a", "n">>
W_switch_to_act == <<"s", "w", "i", "t", "c", "h", " ", "t", "o", " ", "a", "c", "t">>
W_plan_mode == <<"p", "l", "a", "n", " ", "m", "o", "d", "e">>
W_act_mode == <<"a", "c", "t", " ", "m", "o", "d", "e">>
W_switch_to_plan_mode == <<"s", "w", "i", "t", "c", "h", " ", "t", "o", " ", "p", "l", "a", "n", " ", "m", "o", "d", "e">>
W_switch_to_act_mode == <<"s", "w", "i", "t", "c", "h", " ", "t", "o", " ", "a", "c", "t", " ", "m", "o", "d", "e">>

\* ClineAgent._should_filter_output: the strings of the list and the characters of the class, as the source file holds them
AgentBoxStrings ==
    << <<"U+00E2", "U+2022", "U+00AD">>, <<"U+00E2", "U+2022", "U+00B0">>, <<"U+00E2",
    "U+201D", "U+201A">>, <<"U+00E2", "U+201D", "U+0192">>, <<"U+00E2", "U+2022", "U+00AE">>,
    <<"U+00E2", "U+2022", "U+00AF">> >>
AgentBoxClass ==
    {"U+00AD", "U+00AE", "U+00AF", "U+00B0", "U+00E2", "U+0192", "U+201A", "U+201D", "U+2022"}
\* ClineTelegramBot._process_output: likewise
BotBoxStrings ==
    << <<"U+201A", "U+00EF", "U+2260">>, <<"U+201A", "U+00EF", "U+221E">>, <<"U+201A",
    "U+00EE", "U+00C7">>, <<"U+201A", "U+00EE", "U+00C9">>, <<"U+201A", "U+00EF", "U+00C6">>,
    <<"U+201A", "U+00EF", "U+00D8">> >>
BotBoxClass ==
    {"U+00C6", "U+00C7", "U+00C9", "U+00D8", "U+00EE", "U+00EF", "U+201A", "U+221E", "U+2260"}

(***************************************************************************)
(* PTYAgent._get_prompt_patterns: every pattern ends in \s*$ and is        *)
(* searched with re.IGNORECASE.                                            *)
(***************************************************************************)
_get_prompt_patterns ==
    << Pat(<<Lit(W_bracket_yn)>>, TRUE, TRUE),                      \* \[y/N\]\s*$
       Pat(<<Lit(W_bracket_yn)>>, TRUE, TRUE),                      \* \[Y/n\]\s*$
       Pat(<<Lit(W_paren_yn)>>, TRUE, TRUE),                        \* \(y/n\)\s*$
       Pat(<<Lit(W_paren_yn)>>, TRUE, TRUE),                        \* \(Y/N\)\s*$
       Pat(<<Lit(W_continue_q)>>, TRUE, TRUE),                      \* Continue\?\s*$
       Pat(<<Lit(W_proceed_q)>>, TRUE, TRUE),                       \* Proceed\?\s*$
       Pat(<<Lit(W_are_you_sure_q)>>, TRUE, TRUE),                  \* Are you sure\?\s*$
       Pat(<<Lit(W_enter_sp), Lit(W_colon)>>, TRUE, TRUE),          \* Enter .*:\s*$
       Pat(<<Lit(W_password_colon)>>, TRUE, TRUE),                  \* Password:\s*$
       Pat(<<Lit(W_press), Lit(W_enter), Lit(W_to), Lit(W_continue)>>, TRUE, TRUE),
       Pat(<<Lit(W_press), Lit(W_any), Lit(W_key)>>, TRUE, TRUE),   \* Press.*any.*key\s*$
       Pat(<<Lit(W_lbracket), Lit(W_rbracket)>>, TRUE, TRUE),       \* \[.*\]\s*$
       Pat(<<Lit(W_press_sp), Lit(W_to_exit)>>, TRUE, TRUE),        \* Press .*to exit\s*$
       Pat(<<Lit(W_press_sp), Lit(W_sp_to_return)>>, TRUE, TRUE) >> \* Press .* to return\s*$

(***************************************************************************)
(* prompt_patterns of ClineTelegramBot._process_output: only three of them *)
(* end in \s*$.                                                            *)
(***************************************************************************)
prompt_patterns ==
    << Pat(<<Lit(W_bracket_yn)>>, FALSE, TRUE),                     \* \[y/N\]
       Pat(<<Lit(W_bracket_yn)>>, FALSE, TRUE),                     \* \[Y/n\]
       Pat(<<Lit(W_paren_yn)>>, FALSE, TRUE),                       \* \(y/n\)
       Pat(<<Lit(W_paren_yn)>>, FALSE, TRUE),                       \* \(Y/N\)
       Pat(<<Lit(W_continue_q)>>, FALSE, TRUE),                     \* Continue\?
       Pat(<<Lit(W_proceed_q)>>, FALSE, TRUE),                      \* Proceed\?
       Pat(<<Lit(W_are_you_sure_q)>>, FALSE, TRUE),                 \* Are you sure\?
       Pat(<<Lit(W_enter_sp), Lit(W_colon)>>, TRUE, TRUE),          \* Enter .*:\s*$
       Pat(<<Lit(W_password_colon)>>, TRUE, TRUE),                  \* Password:\s*$
       Pat(<<Lit(W_press), Lit(W_enter), Lit(W_to), Lit(W_continue)>>, FALSE, TRUE),
       Pat(<<Lit(W_press), Lit(W_any), Lit(W_key)>>, FALSE, TRUE),  \* Press.*any.*key
       Pat(<<Lit(W_lbracket), Lit(W_rbracket)>>, TRUE, TRUE),       \* \[.*\]\s*$
       Pat(<<Lit(W_press_sp), Lit(W_to_exit)>>, FALSE, TRUE),       \* Press .*to exit
       Pat(<<Lit(W_press_sp), Lit(W_sp_to_return)>>, FALSE, TRUE) >>

\* r'[\[\(].*[\]\)]\s*$', the "continuation prompt" of ClineTelegramBot
continuation_pattern == Pat(<< <<{"[", "("}>>, <<{"]", ")"}>> >>, TRUE, FALSE)

AnyPatternMatches(patterns, clean_output) ==
    \E i \in 1..Len(patterns) : re_search(patterns[i], clean_output)

(***************************************************************************)
(* Chunk-level filtering.                                                  *)
(***************************************************************************)
InSeq(x, seq) == \E i \in 1..Len(seq) : seq[i] = x

\* re.match(r"^[\s<class>]+$", stripped)
IsBoxLine(stripped, class) ==
    /\ stripped.pad = 0
    /\ stripped.text # << >>
    /\ \A i \in 1..Len(stripped.text) :
          IsSpace(stripped.text[i]) \/ stripped.text[i] \in class

\* PTYAgent._should_filter_output
PTYAgent_should_filter_output(output) == FALSE

\* ClineAgent._should_filter_output, with the keyword lists main() configures
ClineAgent_should_filter_output(output) ==
    LET stripped == PyStrip(output)
        is_welcome_screen == Contains(PyLower(output), W_cline_cli)
        is_mode_switch ==
            \/ Contains(PyLower(output), W_switch_to_plan)
            \/ Contains(PyLower(output), W_switch_to_act)
            \/ Contains(PyLower(output), W_plan_mode)
            \/ Contains(PyLower(output), W_act_mode)
        is_box_line == IsBoxLine(stripped, AgentBoxClass)
        is_mostly_empty_ui ==
            /\ (stripped.pad = 0 /\ InSeq(stripped.text, AgentBoxStrings)) \/ is_box_line
            /\ PyLen(stripped) <= 3
    IN  ~is_welcome_screen /\ ~is_mode_switch /\ is_mostly_empty_ui

\* the filter at the head of ClineTelegramBot._process_output
Bot_should_filter_output(clean_output, cur_command) ==
    LET stripped == PyStrip(clean_output)
        is_welcome_screen == Contains(clean_output, W_cline_cli)
        is_box_char == stripped.pad = 0 /\ InSeq(stripped.text, BotBoxStrings)
        is_box_line == IsBoxLine(stripped, BotBoxClass)
        is_mode_switch_confirmation ==
            /\ cur_command \in {[pad |-> 0, text |-> W_slash_plan], [pad |-> 0, text |-> W_slash_act]}
            /\ \/ Contains(PyLower(clean_output), W_switch_to_plan_mode)
               \/ Contains(PyLower(clean_output), W_switch_to_act_mode)
               \/ Contains(PyLower(clean_output), W_plan_mode)
               \/ Contains(PyLower(clean_output), W_act_mode)
        is_mostly_empty_ui == (is_box_char \/ is_box_line) /\ PyLen(stripped) <= 3
    IN  ~is_welcome_screen /\ ~is_mode_switch_confirmation /\ is_mostly_empty_ui


(***************************************************************************)
(* State.                                                                  *)
(***************************************************************************)
VARIABLES
    impl,               \* the class of the session object
    is_running_flag,    \* PTYAgent.is_running_flag / ClineTelegramBot.is_running
    session_active,     \* ClineTelegramBot.session_active
    stop_reading,
    master_fd,          \* 0 is None
    slave_fd,
    process,            \* the pid of the Popen object held, 0 is None
    output_thread,      \* the thread object held, 0 is None
    output_queue,
    output_queue_lock,  \* PTYAgent.output_queue_lock: "free" or its holder
    waiting_for_input,
    input_prompt,
    last_prompt_time,
    prompts,            \* history: how many prompts the classifier has detected
    current_command,    \* ClineTelegramBot.current_command
    conversation_history, \* ACPAgent.conversation_history
    open_fds,           \* operating system: the descriptors open in this process
    procs,              \* operating system: pid -> "alive" | "dead", the children spawned
    written,            \* what has been written to a terminal, in order
    reader,             \* the reader thread: its position and locals
    el,                 \* the event loop thread: the synchronous call in progress
    tasks,              \* the bridge's coroutines, suspended at their awaits
    output_monitor_task,
    replies,            \* what the bridge has sent to the chat sink, in order
    recent_hashes,      \* AgentChatBridge._recent_hashes
    last_message_time,  \* AgentChatBridge._last_message_time: sender -> time, -1 is absent
    last_cleanup,       \* AgentChatBridge._last_cleanup
    now,                \* time.time(), in milliseconds
    accepted,           \* history: the chunks appended to the queue, in order
    drained,            \* history: get_output has taken a chunk off the queue
    head_deferred,      \* history: the ceiling of the call that put the head of the queue back, or 0
    last                \* history: the last completed call and what it saw

sessionVars ==
    <<is_running_flag, session_active, stop_reading, master_fd, slave_fd, process,
      output_thread, current_command, conversation_history>>
promptVars == <<waiting_for_input, input_prompt, last_prompt_time, prompts>>
queueVars == <<output_queue, output_queue_lock, accepted, drained, head_deferred>>
osVars == <<open_fds, procs, written>>
bridgeVars ==
    <<tasks, output_monitor_task, replies, recent_hashes, last_message_time, last_cleanup>>
vars ==
    <<impl, sessionVars, promptVars, queueVars, osVars, reader, el, bridgeVars, now, last>>

\* PTYAgent and its subclasses: ClineAgent, and one that declares a custom command and
\* inherits handle_custom_command of AgentInterface
PTYFamily == {"PTYAgent", "ClineAgent", "DeclaringAgent"}

\* AgentChatBridge.user_id, the one sender the bridge serves, and the senders there are
user_id == "owner"
Senders == {"owner", "stranger"}

\* deque(maxlen=100) of PTYAgent.__init__; the bound ClineTelegramBot._process_output enforces
QueueMaxLen == 100
\* the ceiling of PTYAgent.get_output and the default max_length of get_pending_output
OutputCeiling == 4000

(***************************************************************************)
(* collections.deque                                                       *)
(***************************************************************************)
\* deque.append on a deque with maxlen: a full deque drops its leftmost item
BoundedAppend(q, x, maxlen) ==
    IF Len(q) >= maxlen THEN Tail(q) \o <<x>> ELSE Append(q, x)

\* deque.appendleft on a deque with maxlen: a full deque drops its rightmost item
BoundedAppendLeft(q, x, maxlen) ==
    IF Len(q) >= maxlen THEN <<x>> \o SubSeq(q, 1, Len(q) - 1) ELSE <<x>> \o q

\* a deque without maxlen in the place of PTYAgent.output_queue
AgentQueueAppend_Unbounded(q, x) == Append(q, x)

\* a full queue that refuses the new chunk and keeps its oldest
AgentQueueAppend_DropNewest(q, x) == IF Len(q) >= QueueMaxLen THEN q ELSE Append(q, x)

\* PTYAgent.output_queue.append(clean_output)
AgentQueueAppend(q, x) == BoundedAppend(q, x, QueueMaxLen)

\* a put-back that sends the chunk to the back of the queue
AgentQueueAppendLeft_ToBack(q, x) == BoundedAppend(q, x, QueueMaxLen)

\* PTYAgent.output_queue.appendleft(chunk)
AgentQueueAppendLeft(q, x) == BoundedAppendLeft(q, x, QueueMaxLen)

(***************************************************************************)
(* "combined" of get_output is the concatenation of the chunks taken: a    *)
(* sequence of chunks.                                                     *)
(***************************************************************************)
RECURSIVE RopeLen(_)
RopeLen(r) == IF r = << >> THEN 0 ELSE PyLen(Head(r)) + RopeLen(Tail(r))

IsBlank(chunk) == chunk.pad = 0 /\ AllSpace(chunk.text, 1)

RECURSIVE RopeTrimLeft(_)
RopeTrimLeft(r) ==
    IF r = << >> THEN << >>
    ELSE IF IsBlank(Head(r)) THEN RopeTrimLeft(Tail(r))
    ELSE IF Head(r).pad > 0 THEN r
    ELSE <<[pad |-> 0, text |-> TrimLeft(Head(r).text)]>> \o Tail(r)

RECURSIVE RopeTrimRight(_)
RopeTrimRight(r) ==
    IF r = << >> THEN << >>
    ELSE LET n == Len(r) IN
         IF IsBlank(r[n]) THEN RopeTrimRight(SubSeq(r, 1, n - 1))
         ELSE SubSeq(r, 1, n - 1) \o <<[pad |-> r[n].pad, text |-> TrimRight(r[n].text)]>>

\* combined.strip()
RopeStrip(r) == RopeTrimLeft(RopeTrimRight(r))

NoneValue == [kind |-> "None"]

(***************************************************************************)
(* The event loop thread.  el is the synchronous agent call in progress;   *)
(* no coroutine of the bridge runs while one is.  The caller of a call is  *)
(* 0 (the call stands alone) or the task of the bridge that made it.       *)
(***************************************************************************)
ElIdle ==
    [pc |-> "idle", caller |-> 0, max |-> 0, combined |-> << >>, chunk |-> EmptyStr,
     deferred |-> FALSE, carry |-> 0, pre_total |-> 0, pre_fed |-> 0,
     command |-> EmptyStr, prompts_at_clear |-> 0, waiting_at_clear |-> FALSE,
     pre |-> NoneValue]

(***************************************************************************)
(* AgentChatBridge._filter_output, on the characters of a message.         *)
(***************************************************************************)
\* deque(maxlen=10) of AgentChatBridge.__init__
RecentHashesMaxLen == 10

\* a fingerprint history without maxlen
RecentAppend_Unbounded(hashes, msg_hash) == Append(hashes, msg_hash)

\* self._recent_hashes.append(msg_hash); the fingerprint of a content is the content
RecentAppend(hashes, msg_hash) == BoundedAppend(hashes, msg_hash, RecentHashesMaxLen)

\* the characters of a chunk
Expand(chunk) == [i \in 1..chunk.pad |-> "#"] \o chunk.text

RECURSIVE RopeText(_)
RopeText(r) == IF r = << >> THEN << >> ELSE Expand(Head(r)) \o RopeText(Tail(r))

\* s.split("\n")
RECURSIVE SplitLines(_)
SplitLines(s) ==
    IF \E i \in 1..Len(s) : s[i] = "\n"
    THEN LET i == CHOOSE i \in 1..Len(s) : s[i] = "\n" /\ \A j \in 1..(i - 1) : s[j] # "\n"
         IN  <<SubSeq(s, 1, i - 1)>> \o SplitLines(SubSeq(s, i + 1, Len(s)))
    ELSE <<s>>

\* list(dict.fromkeys(lines))
RECURSIVE DedupeLines(_)
DedupeLines(lines) ==
    IF lines = << >> THEN << >>
    ELSE LET init == DedupeLines(SubSeq(lines, 1, Len(lines) - 1))
             line == lines[Len(lines)]
         IN  IF InSeq(line, init) THEN init ELSE Append(init, line)

\* "\n".join(lines)
RECURSIVE JoinLines(_)
JoinLines(lines) ==
    IF lines = << >> THEN << >>
    ELSE IF Len(lines) = 1 THEN lines[1]
    ELSE lines[1] \o <<"\n">> \o JoinLines(Tail(lines))

\* clean_content of _filter_output: ANSI codes stripped, every line trimmed, repeated
\* lines dropped
FilterClean(content) ==
    LET clean == strip_ansi_text(RopeText(content))
        split == SplitLines(clean)
        lines == [i \in 1..Len(split) |-> TrimLeft(TrimRight(split[i]))]
    IN  JoinLines(DedupeLines(lines))

\* ClineAgent._should_filter_message: the indicators as the source file holds them
ui_indicators ==
    << <<"U+00E2", "U+2022", "U+00AD">>, <<"U+00E2", "U+2022", "U+00B0">>,
       <<"U+00E2", "U+201D", "U+201A">>, <<"U+00E2", "U+201D", "U+0192">>,
       <<"/", "p", "l", "a", "n", " ", "o", "r", " ", "/", "a", "c", "t">> >>

\* len(content.split())
WordCount(s) ==
    Cardinality({i \in 1..Len(s) : ~IsSpace(s[i]) /\ (i = 1 \/ IsSpace(s[i - 1]))})

ClineAgent_should_filter_message(content) ==
    LET has(word) == Contains([pad |-> 0, text |-> content], word)
        ui_score == Cardinality({i \in 1..Len(ui_indicators) : has(ui_indicators[i])})
        words == IF WordCount(content) > 1 THEN WordCount(content) ELSE 1
        stripped == Len(TrimLeft(TrimRight(content)))
        is_cline_response == has(<<"#", "#", "#">>)
        is_repetitive_ui == ui_score >= 1 /\ has(ui_indicators[5])
        is_mostly_ui == 10 * ui_score > 3 * words \/ (ui_score >= 2 /\ stripped <= 100)
        high_ui_score == ui_score >= 3 /\ stripped <= 50
    IN  (is_repetitive_ui /\ ~is_cline_response /\ is_mostly_ui) \/ high_ui_score

\* if hasattr(self.agent, '_should_filter_message'): ...
AgentFiltersMessage(content) ==
    impl = "ClineAgent" /\ ClineAgent_should_filter_message(content)

\* What a finished get_output hands to its caller, and what the caller does with it
\* before its next await: handle_regular_message replies with the output;
\* ClineAgent.handle_custom_command builds its response of the result of send_command and
\* the output, and the bridge replies with it; the bridge's own forward of a custom command
\* replies with the output; the output monitor filters the output,
\* sends what is left and sleeps.
Deliver(caller, value) ==
    IF caller = 0 THEN UNCHANGED bridgeVars
    ELSE IF tasks[caller].kind = "text"
    THEN /\ tasks' = [tasks EXCEPT ![caller].pc = "end", ![caller].state = "done"]
         /\ replies' = IF value.kind = "Message"
                       THEN Append(replies, [kind |-> "output", content |-> value.content])
                       ELSE replies
         /\ UNCHANGED <<output_monitor_task, recent_hashes, last_message_time, last_cleanup>>
    ELSE IF tasks[caller].kind = "custom"
    THEN /\ tasks' = [tasks EXCEPT ![caller].pc = "end", ![caller].state = "done"]
         /\ replies' = IF tasks[caller].pc = "custom_sleep"
                       THEN Append(replies, [kind |-> "custom_response",
                                             result |-> tasks[caller].result, output |-> value])
                       ELSE IF value.kind = "Message"
                       THEN Append(replies, [kind |-> "output", content |-> value.content])
                       ELSE replies
         /\ UNCHANGED <<output_monitor_task, recent_hashes, last_message_time, last_cleanup>>
    ELSE /\ tasks' = [tasks EXCEPT ![caller].pc = "sleep", ![caller].state = "ready"]
         /\ IF /\ value.kind = "Message"
               /\ ~AgentFiltersMessage(FilterClean(value.content))
               /\ ~InSeq(FilterClean(value.content), recent_hashes)
            THEN /\ recent_hashes' = RecentAppend(recent_hashes, FilterClean(value.content))
                 /\ replies' = Append(replies, [kind |-> "monitor_output",
                                                content |-> FilterClean(value.content)])
            ELSE UNCHANGED <<recent_hashes, replies>>
         /\ UNCHANGED <<output_monitor_task, last_message_time, last_cleanup>>


(***************************************************************************)
(* The classifier, _process_output, run by the reader thread.  Its first   *)
(* step filters the chunk and detects a prompt; the append to the queue is *)
(* a second step (PTYAgent takes output_queue_lock for it), and            *)
(* ClineTelegramBot bounds its deque in a third.                           *)
(***************************************************************************)
Step(name) == [op |-> name]

\* the reader threads of the session, as one record: where the loop of _output_reader
\* stands, the chunk it has read, its error_count, and how many threads run the loop
ReaderNone == [pc |-> "none", chunk |-> EmptyStr, errors |-> 0, threads |-> 0]

ReaderIdle == [pc |-> "poll", chunk |-> EmptyStr, errors |-> 0, threads |-> 1]

\* threading.Thread(target=self._output_reader).start(): one more thread runs the loop
ReaderStarted == IF reader.pc = "none" THEN ReaderIdle ELSE [reader EXCEPT !.threads = @ + 1]

\* a thread has left the loop
ReaderLeft == IF reader.threads > 1 THEN [reader EXCEPT !.threads = @ - 1] ELSE ReaderNone

\* PTYAgent._process_output up to the append
AgentClassify(output) ==
    LET clean_output == strip_ansi_codes(output)
        filtered == IF impl = "ClineAgent"
                    THEN ClineAgent_should_filter_output(clean_output)
                    ELSE PTYAgent_should_filter_output(clean_output)
    IN  IF filtered
        THEN /\ UNCHANGED promptVars
             /\ reader' = [reader EXCEPT !.errors = 0]
             /\ last' = [op |-> "_process_output", output |-> output, clean |-> clean_output,
                      was_waiting |-> waiting_for_input, kept |-> FALSE]
        ELSE /\ IF AnyPatternMatches(_get_prompt_patterns, clean_output)
                THEN /\ waiting_for_input' = TRUE
                     /\ input_prompt' = PyStrip(clean_output)
                     /\ last_prompt_time' = now
                     /\ prompts' = prompts + 1
                ELSE UNCHANGED promptVars
             /\ reader' = [reader EXCEPT !.pc = "append", !.chunk = clean_output, !.errors = 0]
             /\ last' = [op |-> "_process_output", output |-> output, clean |-> clean_output,
                      was_waiting |-> waiting_for_input, kept |-> TRUE]

\* ClineTelegramBot._process_output up to the append
BotClassify(output) ==
    LET clean_output == strip_ansi_codes(output)
    IN  IF Bot_should_filter_output(clean_output, current_command)
        THEN /\ UNCHANGED <<promptVars, reader>>
             /\ last' = [op |-> "_process_output", output |-> output, clean |-> clean_output,
                      was_waiting |-> waiting_for_input, kept |-> FALSE]
        ELSE /\ IF AnyPatternMatches(prompt_patterns, clean_output)
                THEN /\ waiting_for_input' = TRUE
                     /\ input_prompt' = PyStrip(clean_output)
                     /\ last_prompt_time' = now
                     /\ prompts' = prompts + 1
                ELSE IF re_search(continuation_pattern, PyStrip(clean_output))
                THEN /\ waiting_for_input' = TRUE
                     /\ input_prompt' = PyStrip(clean_output)
                     /\ UNCHANGED last_prompt_time
                     /\ prompts' = prompts + 1
                ELSE UNCHANGED promptVars
             /\ reader' = [reader EXCEPT !.pc = "append", !.chunk = clean_output]
             /\ last' = [op |-> "_process_output", output |-> output, clean |-> clean_output,
                      was_waiting |-> waiting_for_input, kept |-> TRUE]

\* The reader thread reads `output` from the terminal and classifies it.
ReaderData(output) ==
    /\ reader.pc = "poll"
    /\ ~stop_reading /\ is_running_flag
    /\ IF impl \in PTYFamily THEN AgentClassify(output) ELSE BotClassify(output)
    /\ UNCHANGED <<impl, sessionVars, queueVars, osVars, el, bridgeVars, now>>

\* with self.output_queue_lock: self.output_queue.append(clean_output)
AgentAppend ==
    /\ impl \in PTYFamily
    /\ reader.pc = "append"
    /\ output_queue_lock = "free"
    /\ output_queue' = AgentQueueAppend(output_queue, reader.chunk)
    /\ accepted' = Append(accepted, reader.chunk)
    /\ head_deferred' = IF Len(output_queue) < QueueMaxLen THEN head_deferred ELSE 0
    /\ reader' = [reader EXCEPT !.pc = "poll", !.chunk = EmptyStr]
    /\ last' = Step("append")
    /\ UNCHANGED <<impl, sessionVars, promptVars, output_queue_lock, drained, osVars, el,
                   bridgeVars, now>>

\* self.output_queue.append(clean_output): the deque of ClineTelegramBot has no maxlen
BotAppend ==
    /\ impl = "ClineTelegramBot"
    /\ reader.pc = "append"
    /\ output_queue' = Append(output_queue, reader.chunk)
    /\ accepted' = Append(accepted, reader.chunk)
    /\ reader' = [reader EXCEPT !.pc = "overflow"]
    /\ last' = Step("append")
    /\ UNCHANGED <<impl, sessionVars, promptVars, output_queue_lock, drained, head_deferred,
                   osVars, el, bridgeVars, now>>

\* if len(self.output_queue) > 100: self.output_queue.popleft()
BotOverflow ==
    /\ impl = "ClineTelegramBot"
    /\ reader.pc = "overflow"
    /\ output_queue' = IF Len(output_queue) > QueueMaxLen THEN Tail(output_queue)
                       ELSE output_queue
    /\ head_deferred' = IF Len(output_queue) <= QueueMaxLen THEN head_deferred ELSE 0
    /\ reader' = [reader EXCEPT !.pc = "poll", !.chunk = EmptyStr]
    /\ last' = Step("overflow")
    /\ UNCHANGED <<impl, sessionVars, promptVars, output_queue_lock, accepted, drained,
                   osVars, el, bridgeVars, now>>

(***************************************************************************)
(* get_output / get_pending_output, run on the event loop thread.  The     *)
(* caller is 0 (the call stands alone) or a task of the bridge.            *)
(***************************************************************************)
\* a test that forgets what the call has already taken
ExceedsCeiling_ChunkOnly(combined, chunk, max) == PyLen(chunk) > max

\* len(combined + chunk) > 4000 (> max_length)
ExceedsCeiling(combined, chunk, max) == RopeLen(combined) + PyLen(chunk) > max

\* PTYAgent.get_output: what it returns for `combined`
AgentResult(combined) ==
    IF RopeStrip(combined) # << >>
    THEN [kind |-> "Message", content |-> RopeStrip(combined)]
    ELSE NoneValue

\* ClineTelegramBot.get_pending_output: result = combined.strip() if combined else None
BotResult(combined) ==
    IF RopeLen(combined) > 0
    THEN [kind |-> "Message", content |-> RopeStrip(combined)]
    ELSE NoneValue

\* history: what a finished call of get_output saw and did
GetOutputRecord(e, value, q) ==
    [op |-> "get_output", caller |-> e.caller, max |-> e.max, ret |-> value,
     combined |-> e.combined,
     deferred |-> e.deferred, chunk |-> e.chunk, carry |-> e.carry,
     carry_returned |-> (e.carry > 0 /\ e.combined # << >>),
     pre_total |-> e.pre_total, quiet |-> (e.pre_fed = Len(accepted)), post |-> q]

\* entry: take the lock; an empty queue returns None at once
GetBegin(caller, max) ==
    /\ el.pc = "idle"
    /\ impl \in PTYFamily => output_queue_lock = "free"
    /\ IF output_queue = << >>
       THEN /\ Deliver(caller, NoneValue)
            /\ last' = GetOutputRecord([ElIdle EXCEPT !.caller = caller, !.max = max,
                                                       !.pre_fed = Len(accepted)],
                                       NoneValue, output_queue)
            /\ UNCHANGED <<el, output_queue_lock>>
       ELSE /\ el' = [ElIdle EXCEPT !.pc = "get_loop", !.caller = caller, !.max = max,
                                    !.pre_total = RopeLen(output_queue),
                                    !.pre_fed = Len(accepted)]
            /\ output_queue_lock' = IF impl \in PTYFamily THEN "consumer" ELSE output_queue_lock
            /\ last' = Step("get_begin")
            /\ UNCHANGED bridgeVars
    /\ UNCHANGED <<impl, sessionVars, promptVars, output_queue, accepted, drained,
                   head_deferred, osVars, reader, now>>

\* while self.output_queue and len(combined) < max: chunk = self.output_queue.popleft()
GetLoop ==
    /\ el.pc = "get_loop"
    /\ IF output_queue # << >> /\ RopeLen(el.combined) < el.max
       THEN /\ el' = [el EXCEPT !.pc = "get_popped", !.chunk = Head(output_queue),
                                !.carry = IF @ > 0 THEN @ ELSE head_deferred]
            /\ output_queue' = Tail(output_queue)
            /\ drained' = TRUE
            /\ head_deferred' = 0
       ELSE /\ el' = [el EXCEPT !.pc = "get_end"]
            /\ UNCHANGED <<output_queue, drained, head_deferred>>
    /\ last' = Step("get_loop")
    /\ UNCHANGED <<impl, sessionVars, promptVars, output_queue_lock, accepted, osVars,
                   reader, bridgeVars, now>>

\* if len(combined + chunk) > max: appendleft(chunk); break -- else combined += chunk
GetDecide ==
    /\ el.pc = "get_popped"
    /\ IF ExceedsCeiling(el.combined, el.chunk, el.max)
       THEN /\ output_queue' = IF impl \in PTYFamily
                               THEN AgentQueueAppendLeft(output_queue, el.chunk)
                               ELSE <<el.chunk>> \o output_queue
            /\ head_deferred' = el.max
            /\ el' = [el EXCEPT !.pc = "get_end", !.deferred = TRUE]
       ELSE /\ el' = [el EXCEPT !.pc = "get_loop", !.combined = Append(@, el.chunk)]
            /\ UNCHANGED <<output_queue, head_deferred>>
    /\ last' = Step("get_decide")
    /\ UNCHANGED <<impl, sessionVars, promptVars, output_queue_lock, accepted, drained,
                   osVars, reader, bridgeVars, now>>

\* the return, which releases the lock
GetEnd ==
    /\ el.pc = "get_end"
    /\ LET value == IF impl \in PTYFamily THEN AgentResult(el.combined)
                    ELSE BotResult(el.combined)
       IN  /\ Deliver(el.caller, value)
           /\ last' = GetOutputRecord(el, value, output_queue)
    /\ el' = ElIdle
    /\ output_queue_lock' = IF impl \in PTYFamily THEN "free" ELSE output_queue_lock
    /\ UNCHANGED <<impl, sessionVars, promptVars, output_queue, accepted, drained,
                   head_deferred, osVars, reader, now>>

(***************************************************************************)
(* Construction, and a session that start() has started.                   *)
(***************************************************************************)
ConstructedState(i) ==
    /\ impl = i
    /\ is_running_flag = FALSE /\ session_active = FALSE /\ stop_reading = FALSE
    /\ master_fd = 0 /\ slave_fd = 0 /\ process = 0 /\ output_thread = 0
    /\ output_queue = << >> /\ output_queue_lock = "free"
    /\ waiting_for_input = FALSE /\ input_prompt = EmptyStr /\ last_prompt_time = 0
    /\ prompts = 0
    /\ current_command = NoneValue /\ conversation_history = << >>
    /\ open_fds = {} /\ procs = << >> /\ written = << >>
    /\ reader = ReaderNone
    /\ el = ElIdle
    /\ tasks = << >> /\ output_monitor_task = 0 /\ replies = << >>
    /\ recent_hashes = << >> /\ last_message_time = [s \in Senders |-> -1]
    /\ last_cleanup = 0
    /\ now = 0
    /\ accepted = << >> /\ drained = FALSE /\ head_deferred = 0

Constructed(i) == ConstructedState(i) /\ last = Step("init")

\* the state a first successful start() leaves: one child, its terminal, the reader polling
Started(i) ==
    /\ impl = i
    /\ is_running_flag = TRUE /\ session_active = (i = "ClineTelegramBot")
    /\ stop_reading = FALSE
    /\ master_fd = 1 /\ slave_fd = 2 /\ process = 1 /\ output_thread = 1
    /\ output_queue = << >> /\ output_queue_lock = "free"
    /\ waiting_for_input = FALSE /\ input_prompt = EmptyStr /\ last_prompt_time = 0
    /\ prompts = 0
    /\ current_command = NoneValue /\ conversation_history = << >>
    /\ open_fds = {1, 2} /\ procs = <<"alive">> /\ written = << >>
    /\ reader = ReaderIdle
    /\ el = ElIdle
    /\ tasks = << >> /\ output_monitor_task = 0 /\ replies = << >>
    /\ recent_hashes = << >> /\ last_message_time = [s \in Senders |-> -1]
    /\ last_cleanup = 0
    /\ now = 0
    /\ accepted = << >> /\ drained = FALSE /\ head_deferred = 0
    /\ last = Step("init")

(***************************************************************************)
(* SpecQueue: a started session whose child writes MaxFeed chunks, each of *)
(* its own length, while get_output is called at any time.                 *)
(***************************************************************************)
MaxFeed == 104
BasePad == 1300

CapChunk(i) == [pad |-> BasePad + i, text |-> << >>]

InitQueue == Started("PTYAgent") \/ Started("ClineTelegramBot")

FeedCap ==
    /\ Len(accepted) < MaxFeed
    /\ ReaderData(CapChunk(Len(accepted) + 1))

\* The consumer calls get_output at any time; the consumer of ClineTelegramBot, whose
\* unlocked deque interleaves freely with the reader, makes one draining call.
ConsumerCall ==
    /\ impl = "ClineTelegramBot" => ~drained
    /\ GetBegin(0, OutputCeiling)

NextQueue ==
    \/ FeedCap
    \/ AgentAppend
    \/ BotAppend
    \/ BotOverflow
    \/ ConsumerCall
    \/ GetLoop
    \/ GetDecide
    \/ GetEnd

SpecQueue == InitQueue /\ [][NextQueue]_vars

\* the last n items of a sequence
LastN(s, n) == IF Len(s) <= n THEN s ELSE SubSeq(s, Len(s) - n + 1, Len(s))

\* C1: the output queue of a PTYAgent never holds more than 100 entries, however the
\* reader's appends interleave with get_output (its put-back included).
C1_QueueBounded == impl \in PTYFamily => Len(output_queue) <= QueueMaxLen

\* C1 witness: the queue is full with a chunk that get_output put back at its head, after
\* more than 100 chunks were accepted.
C1_Witness ==
    /\ impl \in PTYFamily
    /\ Len(output_queue) = QueueMaxLen
    /\ head_deferred > 0
    /\ Len(accepted) > QueueMaxLen

\* C2: with no drain, once the classifier is between chunks the queue holds exactly the
\* (at most 100) most recently accepted chunks, in arrival order.
C2_KeepsNewest ==
    (~drained /\ reader.pc = "poll") => output_queue = LastN(accepted, QueueMaxLen)

\* C2 witness: more than 100 chunks were accepted and nothing was drained.
C2_Witness ==
    /\ ~drained /\ reader.pc = "poll"
    /\ Len(accepted) > QueueMaxLen + 2
    /\ output_queue[1] = accepted[Len(accepted) - QueueMaxLen + 1]

(***************************************************************************)
(* SpecGet: a started session whose child writes up to MaxGetFeed chunks   *)
(* of freely chosen sizes, while get_output is called at any time.         *)
(***************************************************************************)
MaxGetFeed == 3
FirstPart == 1500

\* what one os.read of the terminal delivers: two parts that add up to the ceiling, one
\* chunk of ceiling + 1 characters, a colour reset on its own, one blank
GetOutputs ==
    { [pad |-> FirstPart, text |-> << >>],
      [pad |-> OutputCeiling - FirstPart, text |-> << >>],
      [pad |-> OutputCeiling + 1, text |-> << >>],
      [pad |-> 0, text |-> <<"ESC", "[", "0", "m">>],
      [pad |-> 0, text |-> <<" ">>] }

\* PTYAgent.get_output has its ceiling built in; get_pending_output takes max_length
MaxLengths ==
    IF impl = "ClineTelegramBot" THEN {OutputCeiling, OutputCeiling - FirstPart}
    ELSE {OutputCeiling}

InitGet == Started("PTYAgent") \/ Started("ClineTelegramBot")

FeedGet ==
    /\ Len(accepted) < MaxGetFeed
    /\ \E output \in GetOutputs : ReaderData(output)

GetCall == \E max \in MaxLengths : GetBegin(0, max)

NextGet ==
    \/ FeedGet
    \/ AgentAppend
    \/ BotAppend
    \/ BotOverflow
    \/ GetCall
    \/ GetLoop
    \/ GetDecide
    \/ GetEnd

SpecGet == InitGet /\ [][NextGet]_vars

\* C3 (as amended): get_output never returns a payload longer than its ceiling; when the
\* queued chunks total exactly the ceiling and nothing is appended during the call, the
\* call takes every queued character, a payload it returns is all of them trimmed, and the
\* queue is left holding nothing but empty chunks.
C3_PayloadWithinCeiling ==
    last.op = "get_output" =>
        /\ last.ret.kind = "Message" => RopeLen(last.ret.content) <= last.max
        /\ (last.pre_total = last.max /\ last.quiet) =>
               /\ RopeLen(last.combined) = last.max
               /\ last.ret.kind = "Message" => last.ret.content = RopeStrip(last.combined)
               /\ RopeLen(last.post) = 0

\* C3 witness: a call returned two chunks that add up to the ceiling exactly.
C3_Witness ==
    /\ last.op = "get_output"
    /\ last.pre_total = last.max /\ last.quiet
    /\ Len(last.combined) >= 2
    /\ last.ret.kind = "Message" /\ RopeLen(last.ret.content) = last.max

\* C3 as stated: moreover a queue whose chunks total exactly the ceiling is emptied.
C3_ExactTotalEmptied ==
    (last.op = "get_output" /\ last.pre_total = last.max /\ last.quiet) =>
        /\ RopeLen(last.combined) = last.max
        /\ last.post = << >>

\* C4 as stated: a chunk that a call put back at the head of the queue is returned by the
\* next call whose ceiling is no smaller.
C4_DeferredChunkReturned ==
    (last.op = "get_output" /\ last.carry > 0 /\ last.max >= last.carry) =>
        last.carry_returned

(***************************************************************************)
(* SpecClassify: a started session whose child writes up to                *)
(* MaxClassifyFeed chunks taken from the texts below.                      *)
(***************************************************************************)
T_ContinueYN ==
    <<"C", "o", "n", "t", "i", "n", "u", "e", "?", " ", "(", "y", "/", "n", ")">>
T_ChooseYNWisely ==
    <<"C", "h", "o", "o", "s", "e", " ", "(", "y", "/", "n", ")", " ", "w", "i", "s", "e", "l",
    "y">>
T_Continue ==
    <<"C", "o", "n", "t", "i", "n", "u", "e", "?">>
T_ContinueMore ==
    <<"C", "o", "n", "t", "i", "n", "u", "e", "?", " ", "A", "n", "d", " ", "m", "o", "r", "e",
    " ", "t", "e", "x", "t">>
T_PasswordSp ==
    <<"P", "a", "s", "s", "w", "o", "r", "d", ":", " ">>
T_PasswordMid ==
    <<"P", "a", "s", "s", "w", "o", "r", "d", ":", " ", "i", "n", " ", "t", "h", "e", " ", "t",
    "e", "x", "t">>
T_EnterName ==
    <<"E", "n", "t", "e", "r", " ", "y", "o", "u", "r", " ", "n", "a", "m", "e", ":", " ">>
T_PressAnyKey ==
    <<"P", "r", "e", "s", "s", " ", "a", "n", "y", " ", "k", "e", "y">>
T_PressEnterMore ==
    <<"P", "r", "e", "s", "s", " ", "E", "n", "t", "e", "r", " ", "t", "o", " ", "c", "o", "n",
    "t", "i", "n", "u", "e", " ", "a", "n", "d", " ", "m", "o", "r", "e">>
T_BracketYNSp ==
    <<"C", "o", "n", "t", "i", "n", "u", "e", "?", " ", "[", "y", "/", "N", "]", " ">>
T_BracketMid ==
    <<"[", "y", "/", "N", "]", " ", "o", "p", "t", "i", "o", "n", "s">>
T_Hello ==
    <<"h", "e", "l", "l", "o", " ", "w", "o", "r", "l", "d">>
T_Box ==
    <<"U+2503">>
T_BoxText ==
    <<"U+2503", " ", "B", "u", "i", "l", "d", " ", "s", "u", "c", "c", "e", "e", "d", "e", "d",
    " ", "U+2503">>
T_Box3 ==
    <<"U+2502", "U+2502", "U+2502">>
T_Colored ==
    <<"ESC", "[", "3", "2", "m", "P", "r", "o", "c", "e", "e", "d", "?", "ESC", "[", "0", "m",
    "\n">>
T_Blank ==
    <<" ", "\n">>

MaxClassifyFeed == 2

Text(t) == [pad |-> 0, text |-> t]

ClassifyInputs ==
    { Text(T_ContinueYN), Text(T_ChooseYNWisely), Text(T_Continue), Text(T_ContinueMore),
      Text(T_PasswordSp), Text(T_PasswordMid), Text(T_EnterName), Text(T_PressAnyKey),
      Text(T_PressEnterMore), Text(T_BracketYNSp), Text(T_BracketMid), Text(T_Hello),
      Text(T_Box), Text(T_BoxText), Text(T_Box3), Text(T_Colored), Text(T_Blank) }

InitClassify ==
    \/ Started("PTYAgent")
    \/ Started("ClineAgent")
    \/ Started("ClineTelegramBot")

FeedClassify ==
    /\ Len(accepted) < MaxClassifyFeed
    /\ \E output \in ClassifyInputs : ReaderData(output)

NextClassify ==
    \/ FeedClassify
    \/ AgentAppend
    \/ BotAppend
    \/ BotOverflow

SpecClassify == InitClassify /\ [][NextClassify]_vars

\* a pattern of the classifier without its end anchor
Unanchored(pat) == [pat EXCEPT !.anchored = FALSE]

\* the text ends with a prompt pattern, optionally followed by whitespace
EndsWithPrompt(clean) == AnyPatternMatches(_get_prompt_patterns, clean)

\* a prompt pattern occurs in the text, and only followed by further text
PromptMidTextOnly(clean) ==
    /\ \E i \in 1..Len(_get_prompt_patterns) :
          re_search(Unanchored(_get_prompt_patterns[i]), clean)
    /\ ~EndsWithPrompt(clean)

\* C9 as stated: a chunk that ends with a prompt pattern sets waiting_for_input and stores
\* the trimmed chunk as input_prompt; a chunk in which the pattern occurs only mid-text
\* leaves waiting_for_input false.
C9_PromptOnlyAtEnd ==
    (last.op = "_process_output" /\ last.kept /\ ~last.was_waiting) =>
        /\ EndsWithPrompt(last.clean) =>
               (waiting_for_input /\ input_prompt = PyStrip(last.clean))
        /\ PromptMidTextOnly(last.clean) => ~waiting_for_input

\* the box-drawing characters of the terminal frames: U+2502, U+2503 and the four corners
ChromeChars == {"U+2502", "U+2503", "U+256D", "U+2570", "U+256E", "U+256F"}

\* the classifiers that suppress chrome: ClineAgent and ClineTelegramBot
ChromeFiltering == {"ClineAgent", "ClineTelegramBot"}

\* the chunk, trimmed, is one to three box-drawing characters and nothing else
IsChrome(clean) ==
    LET stripped == PyStrip(clean)
    IN  /\ stripped.pad = 0
        /\ Len(stripped.text) \in 1..3
        /\ \A i \in 1..Len(stripped.text) : stripped.text[i] \in ChromeChars

\* the chunk, trimmed, begins and ends with a box-drawing character and has text between
IsBoxedText(clean) ==
    LET stripped == PyStrip(clean)
    IN  /\ stripped.pad = 0
        /\ Len(stripped.text) >= 3
        /\ stripped.text[1] \in ChromeChars
        /\ stripped.text[Len(stripped.text)] \in ChromeChars
        /\ \E i \in 2..(Len(stripped.text) - 1) :
              ~IsSpace(stripped.text[i]) /\ stripped.text[i] \notin ChromeChars

\* C12 as stated: the classifier of ClineAgent and of ClineTelegramBot drops a chunk that
\* is only one to three box-drawing characters and leaves the queue, waiting_for_input and
\* input_prompt as they were; a chunk with box-drawing characters around text is kept and
\* its append puts it at the end of the queue.
C12_ChromeDroppedTextKept ==
    [][ /\ (impl \in ChromeFiltering /\ reader.pc = "poll" /\ last'.op = "_process_output") =>
             /\ IsChrome(last'.clean) =>
                    /\ ~last'.kept
                    /\ reader'.pc = "poll"
                    /\ UNCHANGED <<output_queue, waiting_for_input, input_prompt>>
             /\ IsBoxedText(last'.clean) =>
                    /\ last'.kept
                    /\ reader'.pc = "append"
                    /\ reader'.chunk = last'.clean
        /\ (impl \in ChromeFiltering /\ reader.pc = "append" /\ reader'.pc # "append") =>
             /\ output_queue' # << >>
             /\ output_queue'[Len(output_queue')] = reader.chunk
      ]_vars

(***************************************************************************)
(* The session manager: start, stop and send_command of PTYAgent, and      *)
(* start_pty_session, stop_pty_session and send_command of                 *)
(* ClineTelegramBot.  The calls are made on the event loop thread, so one  *)
(* runs at a time; the reader thread runs beside them.                     *)
(***************************************************************************)
\* history: the session state a call found
Snapshot ==
    [running |-> is_running_flag, active |-> session_active, stop_reading |-> stop_reading,
     process |-> process, master_fd |-> master_fd, slave_fd |-> slave_fd,
     thread |-> output_thread, fds |-> open_fds, procs |-> procs, queue |-> output_queue,
     waiting |-> waiting_for_input, prompt |-> input_prompt, written |-> written]

\* the children of this session that are alive
LiveChildren == {p \in 1..Len(procs) : procs[p] = "alive"}

\* the lowest descriptor not in use
FreeFd(fds) == CHOOSE n \in 1..(Cardinality(fds) + 1) : n \notin fds /\ \A m \in 1..(n - 1) : m \in fds

\* pty.openpty() followed by subprocess.Popen(...): two descriptors and a child, which is
\* alive, or has died at once (alive = FALSE)
OpenAndSpawn(base, alive) ==
    LET m == FreeFd(open_fds)
        s == FreeFd(open_fds \cup {m})
    IN  /\ master_fd' = m
        /\ slave_fd' = s
        /\ open_fds' = open_fds \cup {m, s}
        /\ procs' = Append(base, IF alive THEN "alive" ELSE "dead")
        /\ process' = Len(base) + 1

\* PTYAgent.start(): ok is whether the child is still alive after the 0.5 s wait.  The
\* reader thread it starts runs beside one that has not yet seen stop_reading.
PTYAgent_start(ok) ==
    /\ OpenAndSpawn(procs, ok)
    /\ IF ok
       THEN /\ is_running_flag' = TRUE
            /\ stop_reading' = FALSE
            /\ output_thread' = output_thread + 1
            /\ reader' = ReaderStarted
       ELSE UNCHANGED <<is_running_flag, stop_reading, output_thread, reader>>
    /\ UNCHANGED <<session_active, current_command, conversation_history, queueVars, promptVars>>

\* a stop() that also empties the queue and forgets the prompt
PTYAgent_stop_Clearing ==
    /\ stop_reading' = TRUE
    /\ is_running_flag' = FALSE
    /\ procs' = IF process # 0 THEN [procs EXCEPT ![process] = "dead"] ELSE procs
    /\ output_queue' = << >>
    /\ head_deferred' = 0
    /\ waiting_for_input' = FALSE
    /\ input_prompt' = EmptyStr
    /\ UNCHANGED <<session_active, master_fd, slave_fd, process, output_thread,
                   current_command, conversation_history, open_fds, reader, output_queue_lock, accepted, drained,
                   last_prompt_time, prompts>>

\* PTYAgent.stop(): the flags, then terminate() and, after 0.5 s, kill()
PTYAgent_stop ==
    /\ stop_reading' = TRUE
    /\ is_running_flag' = FALSE
    /\ procs' = IF process # 0 THEN [procs EXCEPT ![process] = "dead"] ELSE procs
    /\ UNCHANGED <<session_active, master_fd, slave_fd, process, output_thread,
                   current_command, conversation_history, open_fds, reader, queueVars, promptVars>>

\* The reader thread leaves its loop: while not self.stop_reading and self.is_running_flag
ReaderExit ==
    /\ reader.pc = "poll"
    /\ stop_reading \/ ~is_running_flag
    /\ reader' = ReaderLeft
    /\ last' = Step("reader_exit")
    /\ UNCHANGED <<impl, sessionVars, promptVars, queueVars, osVars, el, bridgeVars, now>>

\* a send_command that never finds the session stopped
SendRefuses_Never == FALSE

\* if not self.is_running_flag: return "Error: Agent not running"
\* (ClineTelegramBot: if not self.is_running: return "Error: PTY session not running")
SendRefuses == ~is_running_flag

NotRunningError ==
    IF impl = "ClineTelegramBot" THEN "Error: PTY session not running"
    ELSE "Error: Agent not running"

\* a send_command that leaves the prompt state alone
SendClears_Nothing == UNCHANGED promptVars

\* self.waiting_for_input = False; self.input_prompt = "" (ClineTelegramBot first resets a
\* prompt older than 30 s, then resets it in any case)
SendClears ==
    /\ waiting_for_input' = FALSE
    /\ input_prompt' = EmptyStr
    /\ UNCHANGED <<last_prompt_time, prompts>>

\* send_command has returned `ret` to the task that called it: handle_regular_message
\* drops the value and goes on to wait for get_output; ClineAgent.handle_custom_command
\* keeps it for its response and sleeps 0.5 s; the bridge's forward of a custom command
\* drops it and sleeps 1.0 s.  The task's `result` is what was returned
\* (for free text a history only: Deliver does not read it).
SendReturn(caller, ret) ==
    IF caller = 0 THEN UNCHANGED bridgeVars
    ELSE /\ tasks' = IF tasks[caller].kind = "custom"
                     THEN [tasks EXCEPT ![caller].pc = IF @ = "custom_send" THEN "custom_sleep"
                                                        ELSE "forward_sleep",
                                        ![caller].result = ret]
                     ELSE [tasks EXCEPT ![caller].pc = "get", ![caller].result = ret]
         /\ UNCHANGED <<output_monitor_task, replies, recent_hashes, last_message_time,
                   last_cleanup>>

\* send_command of a running session up to the write: the prompt state is cleared
SendStart(caller, command) ==
    /\ SendClears
    /\ el' = [ElIdle EXCEPT !.pc = "send_write", !.caller = caller, !.command = command,
                            !.prompts_at_clear = prompts,
                            !.waiting_at_clear = waiting_for_input, !.pre = Snapshot]
    /\ last' = Step("send_clear")

\* send_command up to the write: the running check, then the prompt state is cleared
SendEnter(caller, command) ==
    /\ IF SendRefuses
       THEN /\ last' = [op |-> "send_command", pre |-> Snapshot, ret |-> NotRunningError,
                        wrote |-> FALSE, waiting_at_clear |-> FALSE, reprompted |-> FALSE,
                        caller |-> caller, command |-> command, cleared |-> FALSE]
            /\ SendReturn(caller, NotRunningError)
            /\ UNCHANGED <<promptVars, el>>
       ELSE /\ SendStart(caller, command)
            /\ UNCHANGED bridgeVars
    /\ UNCHANGED <<impl, sessionVars, queueVars, osVars, reader, now>>

\* a send_command that enters while another call holds the command lock
SendBegin_Unlocked(caller, command) == SendEnter(caller, command)

\* a call of send_command from the idle event loop: with self.command_lock
SendBegin(caller, command) ==
    /\ el.pc = "idle"
    /\ SendEnter(caller, command)

\* f"{command}\r\n"
WithTerminator(command) == [command EXCEPT !.text = @ \o <<"\r", "\n">>]

\* the error strings of the except branch: f"Error: {e}", f"Error sending command: {e}"
WriteError ==
    IF impl \in PTYFamily THEN "Error: [Errno 9] Bad file descriptor"
    ELSE "Error sending command: [Errno 9] Bad file descriptor"

\* os.write(self.master_fd, f"{command}\r\n".encode()), the 0.2 s wait and the return;
\* ok is whether the operating system takes the write
SendWriteOutcome(ok) ==
    /\ el.pc = "send_write"
    /\ written' = IF ok THEN Append(written, [fd |-> master_fd,
                                              data |-> WithTerminator(el.command)])
                  ELSE written
    /\ current_command' = IF ok /\ impl = "ClineTelegramBot" THEN el.command
                          ELSE current_command
    /\ last' = [op |-> "send_command", pre |-> Snapshot,
                ret |-> IF ok THEN "Command sent" ELSE WriteError,
                wrote |-> ok, waiting_at_clear |-> el.waiting_at_clear,
                reprompted |-> (prompts > el.prompts_at_clear),
                caller |-> el.caller, command |-> el.command, cleared |-> TRUE,
                at_call |-> el.pre]
    /\ SendReturn(el.caller, IF ok THEN "Command sent" ELSE WriteError)
    /\ el' = ElIdle
    /\ UNCHANGED <<impl, is_running_flag, session_active, stop_reading, master_fd, slave_fd,
                   process, output_thread, conversation_history, promptVars, queueVars,
                   open_fds, procs, reader, now>>

\* the write to a descriptor that is open succeeds
SendWrite == SendWriteOutcome(master_fd \in open_fds)

\* the operating system refuses the write (OSError), although the descriptor is open
SendWriteFails ==
    /\ master_fd \in open_fds
    /\ SendWriteOutcome(FALSE)

\* The child of the session dies on its own.
ChildDies ==
    /\ process # 0
    /\ procs[process] = "alive"
    /\ procs' = [procs EXCEPT ![process] = "dead"]
    /\ last' = Step("child_dies")
    /\ UNCHANGED <<impl, sessionVars, promptVars, queueVars, open_fds, written, reader, el,
                   bridgeVars, now>>

\* a reader thread that, when its read returns no data, also marks the session stopped
\* and closes the terminal
ReaderBreaks_Releasing ==
    /\ reader.pc = "poll"
    /\ process # 0
    /\ procs[process] = "dead"
    /\ reader' = ReaderLeft
    /\ is_running_flag' = FALSE
    /\ open_fds' = open_fds \ {master_fd, slave_fd}
    /\ last' = Step("reader_break")
    /\ UNCHANGED <<impl, session_active, stop_reading, master_fd, slave_fd, process,
                   output_thread, current_command, conversation_history, promptVars,
                   queueVars, procs, written, el, bridgeVars, now>>

\* The reader thread leaves its loop by `break`: os.read returned no data (EOF) or raised
\* for the eleventh time, which a terminal whose child is gone can do.  Nothing but the
\* loop ends: no flag is touched.
ReaderBreaks ==
    /\ reader.pc = "poll"
    /\ process # 0
    /\ procs[process] = "dead"
    /\ reader' = ReaderLeft
    /\ last' = Step("reader_break")
    /\ UNCHANGED <<impl, sessionVars, promptVars, queueVars, osVars, el, bridgeVars, now>>

\* error_count > 10
ErrorBudget == 10

\* a reader that gives up at the tenth error
ErrorBudgetExceeded_AtBudget(error_count) == error_count >= ErrorBudget

\* if error_count > 10: break
ErrorBudgetExceeded(error_count) == error_count > ErrorBudget

\* _output_reader, except branch: select or os.read raised.  error_count += 1; the loop
\* goes on after 0.1 s unless the count is over the budget
ReaderError ==
    /\ reader.pc = "poll"
    /\ ~stop_reading /\ is_running_flag
    /\ reader' = IF ErrorBudgetExceeded(reader.errors + 1) THEN ReaderLeft
                 ELSE [reader EXCEPT !.errors = @ + 1]
    /\ last' = [op |-> "read_error", error_count |-> reader.errors + 1]
    /\ UNCHANGED <<impl, sessionVars, promptVars, queueVars, osVars, el, bridgeVars, now>>

\* _kill_process_tree and _ensure_session_clean: no cline process survives
AllKilled == [p \in 1..Len(procs) |-> "dead"]

\* ClineTelegramBot.start_pty_session: ok is whether the child is still alive after 0.5 s;
\* a child that died at once sends the call through _cleanup_resources
Bot_start(ok) ==
    /\ impl = "ClineTelegramBot"
    /\ el.pc = "idle"
    /\ last' = [op |-> "start", pre |-> Snapshot, ret |-> (ok /\ ~session_active)]
    /\ IF session_active
       THEN UNCHANGED <<sessionVars, open_fds, procs, reader, queueVars>>
       ELSE IF ok
       THEN /\ OpenAndSpawn(AllKilled, TRUE)
            /\ is_running_flag' = TRUE
            /\ session_active' = TRUE
            /\ stop_reading' = FALSE
            /\ output_thread' = output_thread + 1
            /\ reader' = ReaderStarted
            /\ UNCHANGED <<current_command, conversation_history, queueVars>>
       ELSE /\ procs' = Append(AllKilled, "dead")
            /\ stop_reading' = TRUE
            /\ process' = 0
            /\ master_fd' = 0
            /\ slave_fd' = 0
            /\ is_running_flag' = FALSE
            /\ session_active' = FALSE
            /\ output_queue' = << >>
            /\ head_deferred' = 0
            /\ UNCHANGED <<output_thread, current_command, conversation_history, open_fds, reader,
                           output_queue_lock, accepted, drained>>
    /\ UNCHANGED <<impl, promptVars, written, el, bridgeVars, now>>

\* ClineTelegramBot.stop_pty_session up to the join: nothing at all without an active
\* session; otherwise the flags and the kill
Bot_stop_begin ==
    /\ impl = "ClineTelegramBot"
    /\ el.pc = "idle"
    /\ IF ~session_active
       THEN /\ last' = [op |-> "stop", pre |-> Snapshot]
            /\ UNCHANGED <<stop_reading, session_active, procs, el>>
       ELSE /\ stop_reading' = TRUE
            /\ session_active' = FALSE
            /\ procs' = IF process # 0 THEN AllKilled ELSE procs
            /\ el' = [ElIdle EXCEPT !.pc = "stop_join", !.pre = Snapshot]
            /\ last' = Step("stop_begin")
    /\ UNCHANGED <<impl, is_running_flag, master_fd, slave_fd, process, output_thread,
                   current_command, conversation_history, promptVars, queueVars, open_fds, written, reader,
                   bridgeVars, now>>

\* the rest of stop_pty_session: output_thread.join(), which the reader thread ends by
\* finishing its chunk, then _cleanup_file_descriptors and the reset of the state
Bot_stop_join ==
    /\ el.pc = "stop_join"
    /\ reader.pc \in {"poll", "none"}
    /\ reader' = ReaderNone
    /\ open_fds' = open_fds \ {master_fd, slave_fd}
    /\ master_fd' = 0
    /\ slave_fd' = 0
    /\ process' = 0
    /\ is_running_flag' = FALSE
    /\ last' = [op |-> "stop", pre |-> el.pre]
    /\ el' = ElIdle
    /\ UNCHANGED <<impl, session_active, stop_reading, output_thread, current_command, conversation_history,
                   promptVars, queueVars, procs, written, bridgeVars, now>>

(***************************************************************************)
(* ACPAgent: an agent behind an HTTP API.  It has no child and no          *)
(* terminal; send_command suspends in the request, so the other handlers   *)
(* of the bridge run while the answer is awaited.                          *)
(***************************************************************************)
\* deque(maxlen=50) of ACPAgent.__init__
ApiQueueMaxLen == 50

\* what the API answers
ApiAnswer == [pad |-> 0, text |-> <<"o", "k">>]

\* an answer of the API that is longer than a chat message may be
ApiLongAnswer == [pad |-> OutputCeiling + 1, text |-> << >>]

\* what _call_api returns: a text, the empty text, or None for a request that failed
ApiResponses == {ApiAnswer, EmptyStr, NoneValue}

\* a send_command that takes whatever _call_api returned for an answer
ApiAnswered_Always(response) == TRUE

\* if response: -- None and the empty text are no answer
ApiAnswered(response) == response # NoneValue /\ PyLen(response) > 0

\* ACPAgent.start()
ACP_start ==
    /\ is_running_flag' = TRUE
    /\ conversation_history' = << >>
    /\ UNCHANGED <<session_active, stop_reading, master_fd, slave_fd, process, output_thread,
                   current_command, open_fds, procs, reader, queueVars, promptVars>>

\* ACPAgent.stop()
ACP_stop ==
    /\ is_running_flag' = FALSE
    /\ conversation_history' = << >>
    /\ UNCHANGED <<session_active, stop_reading, master_fd, slave_fd, process, output_thread,
                   current_command, open_fds, procs, reader, queueVars, promptVars>>

\* ACPAgent.send_command up to "await self._call_api(...)"
ACP_send_begin(caller, command) ==
    /\ el.pc = "idle"
    /\ IF SendRefuses
       THEN /\ last' = [op |-> "send_command", pre |-> Snapshot, ret |-> NotRunningError,
                        wrote |-> FALSE, waiting_at_clear |-> FALSE, reprompted |-> FALSE,
                        caller |-> caller, command |-> command, cleared |-> FALSE]
            /\ SendReturn(caller, NotRunningError)
            /\ UNCHANGED conversation_history
       ELSE /\ conversation_history' =
                   Append(conversation_history, [role |-> "user", content |-> command])
            /\ tasks' = [tasks EXCEPT ![caller].pc = "api_call"]
            /\ last' = [op |-> "api_request", caller |-> caller, command |-> command,
                        history |-> conversation_history,
                        messages |-> Append(conversation_history,
                                            [role |-> "user", content |-> command])]
            /\ UNCHANGED <<output_monitor_task, replies, recent_hashes, last_message_time,
                      last_cleanup>>
    /\ UNCHANGED <<impl, is_running_flag, session_active, stop_reading, master_fd, slave_fd,
                   process, output_thread, current_command, promptVars, queueVars, osVars,
                   reader, el, now>>

\* the rest of ACPAgent.send_command: _call_api has returned a text, or None for a request
\* that failed
ACP_send_end(caller, response) ==
    /\ el.pc = "idle"
    /\ tasks[caller].pc = "api_call" /\ tasks[caller].state = "ready"
    /\ LET ret == IF ApiAnswered(response) THEN "Message sent"
                  ELSE "Error: No response from agent"
       IN  /\ IF ApiAnswered(response)
              THEN /\ conversation_history' =
                          Append(conversation_history,
                                 [role |-> "assistant", content |-> response])
                   /\ output_queue' = BoundedAppend(output_queue, response, ApiQueueMaxLen)
                   /\ accepted' = Append(accepted, response)
              ELSE UNCHANGED <<conversation_history, output_queue, accepted>>
           /\ last' = [op |-> "send_command", pre |-> Snapshot, ret |-> ret,
                       wrote |-> FALSE, waiting_at_clear |-> FALSE, reprompted |-> FALSE,
                       caller |-> caller, command |-> tasks[caller].text, cleared |-> FALSE,
                       response |-> response, history |-> conversation_history]
           /\ SendReturn(caller, ret)
    /\ UNCHANGED <<impl, is_running_flag, session_active, stop_reading, master_fd, slave_fd,
                   process, output_thread, current_command, promptVars, output_queue_lock,
                   drained, head_deferred, osVars, reader, el, now>>

\* the loop of ACPAgent.get_output: combined += chunk + "\n" while len(combined) < 4000
RECURSIVE ACP_drain(_, _)
ACP_drain(queue, combined) ==
    IF queue # << >> /\ RopeLen(combined) < OutputCeiling
    THEN ACP_drain(Tail(queue), combined \o <<Head(queue), [pad |-> 0, text |-> <<"\n">>]>>)
    ELSE [combined |-> combined, queue |-> queue]

\* ACPAgent.get_output, which no thread interleaves with
ACP_get_output(caller) ==
    /\ el.pc = "idle"
    /\ LET got == ACP_drain(output_queue, << >>)
           value == AgentResult(got.combined)
       IN  /\ output_queue' = got.queue
           /\ drained' = (drained \/ got.combined # << >>)
           /\ Deliver(caller, value)
           /\ last' = [op |-> "get_output", caller |-> caller, max |-> OutputCeiling,
                       ret |-> value, combined |-> got.combined, post |-> got.queue]
    /\ UNCHANGED <<impl, sessionVars, promptVars, output_queue_lock, accepted, head_deferred,
                   osVars, reader, el, now>>

(***************************************************************************)
(* The agent as the bridge sees it.                                        *)
(***************************************************************************)
\* isinstance(self.agent, PTYAgent)
IsPTYAgent == impl \in PTYFamily

\* await self.agent.start(): ok is whether a PTY child is still alive after 0.5 s
Agent_start(ok) == IF IsPTYAgent THEN PTYAgent_start(ok) ELSE ACP_start

\* what start() returns
StartResult(ok) == IsPTYAgent => ok

\* await self.agent.stop()
Agent_stop == IF IsPTYAgent THEN PTYAgent_stop ELSE ACP_stop

\* await self.agent.send_command(command)
Agent_send(caller, command) ==
    IF IsPTYAgent THEN SendBegin(caller, command) ELSE ACP_send_begin(caller, command)

\* await self.agent.get_output()
Agent_get(caller) ==
    IF IsPTYAgent THEN GetBegin(caller, OutputCeiling) ELSE ACP_get_output(caller)

(***************************************************************************)
(* AgentChatBridge.  Every update the chat service delivers runs its       *)
(* handler as a task of the event loop; a task gives way to the others     *)
(* only at an await that suspends: a reply to the chat, asyncio.sleep, the *)
(* wait for the cancelled monitor task, the request of an API agent.       *)
(* start(), stop(), send_command() and get_output() of a PTY agent never   *)
(* suspend.  The clean-up of rate-limit entries older than a day is left   *)
(* out: no run here lasts an hour.                                         *)
(***************************************************************************)
\* self._rate_limit_ms
RateLimitMs == 500

\* self._max_message_length
MaxMessageLength == 10000

\* how many updates the chat delivers
MaxDispatch == 3

\* the agents a bridge is built around
BridgeAgents == {"PTYAgent", "ClineAgent", "DeclaringAgent", "ACPAgent"}

\* the messages the chat delivers
M_start == Text(<<"/", "s", "t", "a", "r", "t">>)
M_stop == Text(<<"/", "s", "t", "o", "p">>)
M_status == Text(<<"/", "s", "t", "a", "t", "u", "s">>)
M_cancel == Text(<<"/", "c", "a", "n", "c", "e", "l">>)
M_reset == Text(<<"/", "r", "e", "s", "e", "t">>)
M_help == Text(<<"/", "h", "e", "l", "p">>)
M_plan == Text(W_slash_plan)
M_act == Text(W_slash_act)
M_foo == Text(<<"/", "f", "o", "o">>)
M_foo_padded == Text(<<" ", "/", "f", "o", "o", " ", "b", "a", "r", "\n">>)
M_yes == Text(<<"y", "e", "s">>)
M_long == [pad |-> MaxMessageLength + 1, text |-> << >>]
M_interrupt == Text(<<"U+0003">>)

\* the commands handle_command knows by name
BuiltInCommands == {M_start, M_stop, M_status, M_cancel, M_reset, M_help}

\* the branch of handle_command a built-in command takes
BuiltInBranch(cmd) ==
    IF cmd = M_start THEN "/start"
    ELSE IF cmd = M_stop THEN "/stop"
    ELSE IF cmd = M_status THEN "/status"
    ELSE IF cmd = M_cancel THEN "/cancel"
    ELSE IF cmd = M_reset THEN "/reset"
    ELSE "/help"

\* self.custom_commands after initialize(): get_custom_commands() of the agent
custom_commands ==
    IF impl = "ClineAgent" THEN {M_plan, M_act}
    ELSE IF impl = "DeclaringAgent" THEN {M_act}
    ELSE {}

\* a handle_custom_command that leaves every command to the default handling
handle_custom_command_None(command) == FALSE

\* whether handle_custom_command(command, args) returns a response: ClineAgent answers
\* /plan and /act, AgentInterface returns None
handle_custom_command(command) == impl = "ClineAgent" /\ command \in {M_plan, M_act}

\* a bridge that lets every sender in
IsAuthorized_Anyone(sender) == TRUE

\* update.effective_user.id == int(self.user_id); sender_id == self.user_id
IsAuthorized(sender) == sender = user_id

\* message_text.startswith("/")
StartsWithSlash(m) == m.pad = 0 /\ m.text # << >> /\ m.text[1] = "/"

\* message_text.split(maxsplit=1)[0] of a text that is not blank
FirstWord(m) ==
    LET t == IF m.pad > 0 THEN m.text ELSE TrimLeft(m.text)
        stop == IF \E i \in 1..Len(t) : IsSpace(t[i])
                THEN CHOOSE i \in 1..Len(t) : IsSpace(t[i]) /\ \A j \in 1..(i - 1) : ~IsSpace(t[j])
                ELSE Len(t) + 1
    IN  [pad |-> m.pad, text |-> SubSeq(t, 1, stop - 1)]

\* the branch of handle_command / handle_command_from_chat a command text takes
CommandRoute(m) ==
    IF FirstWord(m) \in BuiltInCommands THEN BuiltInBranch(FirstWord(m))
    ELSE IF FirstWord(m) \in custom_commands THEN "custom"
    ELSE "unknown"

\* the entry points of the bridge: the handler of the six Telegram commands, the
\* handler of every other Telegram text, and the callback of the other chat services
Entries == {"handle_command", "handle_all_text", "process_message"}

\* the text the entry point hands on: handle_command takes it as it is, the others strip
Handed(entry, m) == IF entry = "handle_command" THEN m ELSE PyStrip(m)

\* where an entry point sends the text of an authorized sender
Route(entry, m) ==
    LET message_text == Handed(entry, m)
    IN  IF entry = "handle_command" THEN CommandRoute(message_text)
        ELSE IF entry = "handle_all_text"
        THEN IF StartsWithSlash(message_text) /\ FirstWord(message_text) \in custom_commands
             THEN "custom"
             ELSE "text"
        ELSE IF StartsWithSlash(message_text) THEN CommandRoute(message_text)
        ELSE "text"

Task(kind, sender, text) ==
    [kind |-> kind, pc |-> "begin", state |-> "ready", aux |-> 0, sender |-> sender,
     text |-> text, result |-> ""]

\* asyncio.create_task(self._output_monitor())
MonitorTask ==
    [kind |-> "monitor", pc |-> "sleep", state |-> "ready", aux |-> 0, sender |-> user_id,
     text |-> EmptyStr, result |-> ""]

Dispatched == Cardinality({t \in 1..Len(tasks) : tasks[t].kind # "monitor"})

Runnable(t, kind, pc) ==
    /\ el.pc = "idle"
    /\ tasks[t].kind = kind
    /\ tasks[t].pc = pc
    /\ tasks[t].state = "ready"

\* An update arrives: its handler is the task after those there are, and runs at once up
\* to its first await.
Arrives(kind) ==
    /\ impl \in BridgeAgents
    /\ el.pc = "idle"
    /\ Dispatched < MaxDispatch

NewTask == Len(tasks) + 1

Arrived(kind, sender, text) == Append(tasks, Task(kind, sender, text))

FinishIn(base, t) == [base EXCEPT ![t].pc = "end", ![t].state = "done"]

Finish(t) == FinishIn(tasks, t)

Reply(text) == Append(replies, [kind |-> text])

\* every entry point: a sender who is not the configured one gets "Unauthorized"
Unauthorized(entry, sender, m) ==
    /\ Arrives("unauthorized")
    /\ ~IsAuthorized(sender)
    /\ replies' = Append(replies, [kind |-> "unauthorized", to |-> sender])
    /\ tasks' = FinishIn(Append(tasks, Task("unauthorized", sender, m)), NewTask)
    /\ last' = [op |-> "unauthorized", entry |-> entry, sender |-> sender, text |-> m]
    /\ UNCHANGED <<impl, sessionVars, promptVars, queueVars, osVars, reader, el,
                   output_monitor_task, recent_hashes, last_message_time, last_cleanup, now>>

\* handle_command, cmd == "/start": up to the reply
StartBegin(sender, ok) ==
    /\ Arrives("/start")
    /\ IF is_running_flag
       THEN /\ replies' = Reply("already_running")
            /\ tasks' = FinishIn(Arrived("/start", sender, M_start), NewTask)
            /\ last' = [op |-> "/start", rejected |-> TRUE]
            /\ UNCHANGED <<sessionVars, open_fds, procs, reader, queueVars, promptVars>>
       ELSE /\ Agent_start(ok)
            /\ replies' = Reply(IF StartResult(ok) THEN "started" ELSE "start_failed")
            /\ tasks' = IF StartResult(ok)
                        THEN [Arrived("/start", sender, M_start) EXCEPT ![NewTask].pc = "after_reply"]
                        ELSE FinishIn(Arrived("/start", sender, M_start), NewTask)
            /\ last' = [op |-> "start", pre |-> Snapshot, ret |-> StartResult(ok),
                        task |-> NewTask]
    /\ UNCHANGED <<impl, written, el, output_monitor_task, recent_hashes, last_message_time,
                   last_cleanup, now>>

\* handle_command, cmd == "/start": if not self.output_monitor_task: create_task(...)
StartResume(t) ==
    /\ Runnable(t, "/start", "after_reply")
    /\ IF output_monitor_task = 0
       THEN /\ tasks' = Append(Finish(t), MonitorTask)
            /\ output_monitor_task' = Len(tasks) + 1
       ELSE /\ tasks' = Finish(t)
            /\ UNCHANGED output_monitor_task
    /\ last' = Step("start_resume")
    /\ UNCHANGED <<impl, sessionVars, promptVars, queueVars, osVars, reader, el, replies,
                   recent_hashes, last_message_time, last_cleanup, now>>

\* handle_command, cmd == "/stop"
StopBegin(sender) ==
    /\ Arrives("/stop")
    /\ Agent_stop
    /\ replies' = Reply("stopped")
    /\ tasks' = FinishIn(Arrived("/stop", sender, M_stop), NewTask)
    /\ last' = [op |-> "stop", pre |-> Snapshot, task |-> NewTask]
    /\ UNCHANGED <<impl, written, el, output_monitor_task, recent_hashes, last_message_time,
                   last_cleanup, now>>

\* _reset_agent from self._recent_hashes.clear() on, and the reply of handle_command
ResetRestart(base, t, ok, omt) ==
    /\ recent_hashes' = << >>
    /\ PTYAgent_start(ok)
    /\ last' = [op |-> "start", pre |-> Snapshot, ret |-> ok, task |-> t]
    /\ IF ok
       THEN /\ tasks' = Append(FinishIn(base, t), MonitorTask)
            /\ output_monitor_task' = Len(base) + 1
            /\ replies' = Reply("reset_complete")
       ELSE /\ tasks' = FinishIn(base, t)
            /\ output_monitor_task' = omt
            /\ replies' = Reply("reset_failed")

\* _reset_agent: was_running = self.agent.is_running(); stop and sleep 1.0 s, or go on
ResetProceed(base, t, omt) ==
    IF is_running_flag
    THEN /\ PTYAgent_stop
         /\ last' = [op |-> "stop", pre |-> Snapshot, task |-> t]
         /\ tasks' = [base EXCEPT ![t].pc = "sleeping"]
         /\ output_monitor_task' = omt
         /\ UNCHANGED <<replies, recent_hashes>>
    ELSE \E ok \in BOOLEAN : ResetRestart(base, t, ok, omt)

\* _reset_agent of an API agent: the conversation history is emptied
ResetApi(sender) ==
    /\ conversation_history' = << >>
    /\ replies' = Reply("api_reset_complete")
    /\ tasks' = FinishIn(Arrived("/reset", sender, M_reset), NewTask)
    /\ last' = [op |-> "api_reset", pre |-> Snapshot]
    /\ UNCHANGED <<is_running_flag, session_active, stop_reading, master_fd, slave_fd,
                   process, output_thread, current_command, open_fds, procs, reader,
                   queueVars, promptVars, output_monitor_task, recent_hashes>>

\* handle_command, cmd == "/reset": _reset_agent up to its first await
ResetBegin(sender) ==
    /\ Arrives("/reset")
    /\ IF ~IsPTYAgent
       THEN ResetApi(sender)
       ELSE IF output_monitor_task # 0 /\ tasks[output_monitor_task].state # "done"
       THEN /\ tasks' = [Arrived("/reset", sender, M_reset) EXCEPT
                             ![output_monitor_task].state = "cancelling",
                             ![NewTask].pc = "await_monitor",
                             ![NewTask].aux = output_monitor_task]
            /\ last' = Step("reset_cancel")
            /\ UNCHANGED <<sessionVars, open_fds, procs, reader, queueVars, promptVars,
                           output_monitor_task, replies, recent_hashes>>
       ELSE ResetProceed(Arrived("/reset", sender, M_reset), NewTask, output_monitor_task)
    /\ UNCHANGED <<impl, written, el, last_message_time, last_cleanup, now>>

\* _reset_agent after "await self.output_monitor_task": self.output_monitor_task = None
ResetAwaited(t) ==
    /\ Runnable(t, "/reset", "await_monitor")
    /\ tasks[tasks[t].aux].state = "done"
    /\ ResetProceed(tasks, t, 0)
    /\ UNCHANGED <<impl, written, el, last_message_time, last_cleanup, now>>

\* _reset_agent after "await asyncio.sleep(1.0)"
ResetSlept(t) ==
    /\ Runnable(t, "/reset", "sleeping")
    /\ \E ok \in BOOLEAN : ResetRestart(tasks, t, ok, output_monitor_task)
    /\ UNCHANGED <<impl, written, el, last_message_time, last_cleanup, now>>

\* the cancelled monitor task ends at the await it was suspended in
MonitorCancelled(m) ==
    /\ el.pc = "idle"
    /\ tasks[m].kind = "monitor"
    /\ tasks[m].state = "cancelling"
    /\ tasks' = Finish(m)
    /\ last' = Step("monitor_cancelled")
    /\ UNCHANGED <<impl, sessionVars, promptVars, queueVars, osVars, reader, el,
                   output_monitor_task, replies, recent_hashes, last_message_time,
                   last_cleanup, now>>

\* _output_monitor: while self.agent.is_running() -- the loop ends
MonitorExit(m) ==
    /\ Runnable(m, "monitor", "sleep")
    /\ ~is_running_flag
    /\ tasks' = Finish(m)
    /\ last' = Step("monitor_exit")
    /\ UNCHANGED <<impl, sessionVars, promptVars, queueVars, osVars, reader, el,
                   output_monitor_task, replies, recent_hashes, last_message_time,
                   last_cleanup, now>>

\* _output_monitor: output = await self.agent.get_output()
MonitorPoll(m) ==
    /\ Runnable(m, "monitor", "sleep")
    /\ is_running_flag
    /\ Agent_get(m)

\* a rate limit that also refuses the message that arrives exactly at the interval
WithinRateLimit_Inclusive(previous, current_time) ==
    previous # -1 /\ current_time - previous <= RateLimitMs

\* no rate limit at all
WithinRateLimit_Never(previous, current_time) == FALSE

\* if user_id in self._last_message_time: time_diff = current_time - ...;
\* if time_diff < (self._rate_limit_ms / 1000)
WithinRateLimit(previous, current_time) ==
    previous # -1 /\ current_time - previous < RateLimitMs

\* self._rate_limit_cleanup_interval = 3600, in milliseconds
CleanupIntervalMs == 3600000

\* an entry older than 24 hours (86400 s) is stale, in milliseconds
StaleEntryMs == 86400000

\* if current_time - self._last_cleanup > self._rate_limit_cleanup_interval
CleanupDue(current_time) == current_time - last_cleanup > CleanupIntervalMs

\* the table without its stale entries: del self._last_message_time[uid] for every uid
\* with current_time - ts > 86400
Cleaned(table, current_time) ==
    [uid \in DOMAIN table |->
        IF table[uid] # -1 /\ current_time - table[uid] > StaleEntryMs
        THEN -1 ELSE table[uid]]

\* the table the rate limit reads: after the periodic cleanup where it is due
AfterCleanup(current_time) ==
    IF CleanupDue(current_time) THEN Cleaned(last_message_time, current_time)
    ELSE last_message_time

\* handle_regular_message / handle_regular_message_from_chat up to the reply
\* "Message sent..."
TextArrives(entry, sender, m) ==
    /\ Arrives("text")
    /\ IF ~is_running_flag
       THEN /\ replies' = Reply("not_running")
            /\ tasks' = FinishIn(Arrived("text", sender, m), NewTask)
            /\ last' = [op |-> "text", entry |-> entry, text |-> m, pre |-> Snapshot,
                        outcome |-> "not_running", at |-> now,
                        previous |-> last_message_time[sender], cleanup |-> FALSE]
            /\ UNCHANGED <<last_message_time, last_cleanup>>
       ELSE IF PyLen(m) > MaxMessageLength
       THEN /\ replies' = Reply("too_long")
            /\ tasks' = FinishIn(Arrived("text", sender, m), NewTask)
            /\ last' = [op |-> "text", entry |-> entry, text |-> m, pre |-> Snapshot,
                        outcome |-> "too_long", at |-> now,
                        previous |-> last_message_time[sender], cleanup |-> FALSE]
            /\ UNCHANGED <<last_message_time, last_cleanup>>
       ELSE /\ last_cleanup' = (IF CleanupDue(now) THEN now ELSE last_cleanup)
            /\ IF WithinRateLimit(AfterCleanup(now)[sender], now)
               THEN /\ replies' = Reply("please_wait")
                    /\ tasks' = FinishIn(Arrived("text", sender, m), NewTask)
                    /\ last' = [op |-> "text", entry |-> entry, text |-> m,
                                pre |-> Snapshot, outcome |-> "rate_limited", at |-> now,
                                previous |-> last_message_time[sender],
                                cleanup |-> CleanupDue(now)]
                    /\ last_message_time' = AfterCleanup(now)
               ELSE /\ replies' = Reply("message_sent")
                    /\ tasks' = [Arrived("text", sender, m) EXCEPT ![NewTask].pc = "send"]
                    /\ last' = [op |-> "text", entry |-> entry, text |-> m,
                                pre |-> Snapshot, outcome |-> "accepted", at |-> now,
                                previous |-> last_message_time[sender],
                                cleanup |-> CleanupDue(now)]
                    /\ last_message_time' = [AfterCleanup(now) EXCEPT ![sender] = now]
    /\ UNCHANGED <<impl, sessionVars, promptVars, queueVars, osVars, reader, el,
                   output_monitor_task, recent_hashes, now>>

\* free text from the Telegram text handler
TextBegin == TextArrives("handle_all_text", user_id, M_yes)

\* handle_regular_message: await self.agent.send_command(message_text)
TextSend(t, command) ==
    /\ Runnable(t, "text", "send")
    /\ Agent_send(t, command)

\* ACPAgent.send_command: the request returns
TextApiReturns(t, response) ==
    /\ tasks[t].kind = "text"
    /\ ACP_send_end(t, response)

\* handle_regular_message: output = await asyncio.wait_for(self.agent.get_output(), ...);
\* get_output never suspends, so the wait never times out
TextGet(t) ==
    /\ Runnable(t, "text", "get")
    /\ Agent_get(t)

\* handle_command, cmd == "/status"
StatusBegin(sender) ==
    /\ Arrives("/status")
    /\ replies' = Append(replies, [kind |-> "status", running |-> is_running_flag,
                                   waiting |-> waiting_for_input])
    /\ tasks' = FinishIn(Arrived("/status", sender, M_status), NewTask)
    /\ last' = [op |-> "/status", pre |-> Snapshot]
    /\ UNCHANGED <<impl, sessionVars, promptVars, queueVars, osVars, reader, el,
                   output_monitor_task, recent_hashes, last_message_time, last_cleanup, now>>

\* handle_command, cmd == "/help"
HelpBegin(sender) ==
    /\ Arrives("/help")
    /\ replies' = Reply("help")
    /\ tasks' = FinishIn(Arrived("/help", sender, M_help), NewTask)
    /\ last' = [op |-> "/help", pre |-> Snapshot]
    /\ UNCHANGED <<impl, sessionVars, promptVars, queueVars, osVars, reader, el,
                   output_monitor_task, recent_hashes, last_message_time, last_cleanup, now>>

\* handle_command, the last branch: "Unknown command" and the list of custom commands
UnknownBegin(entry, sender, m) ==
    /\ Arrives("unknown")
    /\ replies' = Append(replies, [kind |-> "unknown_command", cmd |-> FirstWord(m)])
    /\ tasks' = FinishIn(Arrived("unknown", sender, m), NewTask)
    /\ last' = [op |-> "unknown", entry |-> entry, text |-> m, pre |-> Snapshot]
    /\ UNCHANGED <<impl, sessionVars, promptVars, queueVars, osVars, reader, el,
                   output_monitor_task, recent_hashes, last_message_time, last_cleanup, now>>

\* a /cancel that ends its write as a command line
CancelData_Line == WithTerminator(M_interrupt)

\* b"\x03"
CancelData == M_interrupt

\* handle_command, cmd == "/cancel", with _cancel_operation: Ctrl+C is written to the
\* terminal of a PTY agent; an API agent is only answered
CancelBegin(sender) ==
    /\ Arrives("/cancel")
    /\ LET wrote == is_running_flag /\ IsPTYAgent /\ master_fd \in open_fds
       IN  /\ written' = IF wrote THEN Append(written, [fd |-> master_fd, data |-> CancelData])
                         ELSE written
           /\ replies' = Reply(IF ~is_running_flag THEN "not_running"
                               ELSE IF ~IsPTYAgent THEN "api_cancelled"
                               ELSE IF wrote THEN "cancel_sent"
                               ELSE "cancel_failed")
           /\ last' = [op |-> "/cancel", pre |-> Snapshot, wrote |-> wrote]
    /\ tasks' = FinishIn(Arrived("/cancel", sender, M_cancel), NewTask)
    /\ UNCHANGED <<impl, sessionVars, promptVars, queueVars, open_fds, procs, reader, el,
                   output_monitor_task, recent_hashes, last_message_time, last_cleanup, now>>

\* a custom command of the agent: handle_custom_command up to the write of its
\* send_command("/plan") or send_command("/act"), which starts without an await
CustomBegin(sender, m) ==
    /\ Arrives("custom")
    /\ IF ~is_running_flag
       THEN /\ replies' = Reply("not_running")
            /\ tasks' = FinishIn(Arrived("custom", sender, m), NewTask)
            /\ last' = [op |-> "custom", text |-> m, pre |-> Snapshot]
            /\ UNCHANGED <<promptVars, el>>
       ELSE /\ IF handle_custom_command(FirstWord(m))
               THEN /\ SendStart(NewTask, FirstWord(m))
                    /\ tasks' = [Arrived("custom", sender, m) EXCEPT
                                     ![NewTask].pc = "custom_send"]
               ELSE /\ SendStart(NewTask, m)
                    /\ tasks' = [Arrived("custom", sender, m) EXCEPT
                                     ![NewTask].pc = "forward_send"]
            /\ UNCHANGED replies
    /\ UNCHANGED <<impl, sessionVars, queueVars, osVars, reader, output_monitor_task,
                   recent_hashes, last_message_time, last_cleanup, now>>

\* handle_custom_command after "await asyncio.sleep(0.5)": output = await self.get_output()
\* and the reply of the bridge
CustomGet(t) ==
    /\ Runnable(t, "custom", "custom_sleep")
    /\ Agent_get(t)

\* the bridge after "await asyncio.sleep(1.0)": output = await self.agent.get_output() and
\* the reply
ForwardGet(t) ==
    /\ Runnable(t, "custom", "forward_sleep")
    /\ Agent_get(t)

\* the chat delivers the text m of the sender to an entry point of the bridge
Receive(entry, sender, m) ==
    \/ Unauthorized(entry, sender, m)
    \/ /\ IsAuthorized(sender)
       /\ \/ Route(entry, m) = "/start" /\ \E ok \in BOOLEAN : StartBegin(sender, ok)
          \/ Route(entry, m) = "/stop" /\ StopBegin(sender)
          \/ Route(entry, m) = "/reset" /\ ResetBegin(sender)
          \/ Route(entry, m) = "/status" /\ StatusBegin(sender)
          \/ Route(entry, m) = "/help" /\ HelpBegin(sender)
          \/ Route(entry, m) = "/cancel" /\ CancelBegin(sender)
          \/ Route(entry, m) = "custom" /\ CustomBegin(sender, Handed(entry, m))
          \/ Route(entry, m) = "unknown" /\ UnknownBegin(entry, sender, Handed(entry, m))
          \/ Route(entry, m) = "text" /\ TextArrives(entry, sender, Handed(entry, m))

(***************************************************************************)
(* SpecSession: a constructed session.  A PTYAgent is driven by the bridge *)
(* with up to MaxDispatch updates (/start, /stop, /reset, free text) whose *)
(* handlers interleave at their awaits; a ClineTelegramBot is driven by    *)
(* calls of its own methods.  The child writes up to MaxSessionFeed        *)
(* chunks.                                                                 *)
(***************************************************************************)
MaxSessionFeed == 1
MaxSpawn == 2
MaxWrites == 1
TickMs == 500
MaxNow == 500

SessionOutputs == {Text(T_ContinueYN), Text(T_Hello)}

InitSession == Constructed("PTYAgent") \/ Constructed("ClineTelegramBot")

FeedSession ==
    /\ Len(accepted) < MaxSessionFeed
    /\ \E output \in SessionOutputs : ReaderData(output)

Tick ==
    /\ now < MaxNow
    /\ now' = now + TickMs
    /\ last' = Step("tick")
    /\ UNCHANGED <<impl, sessionVars, promptVars, queueVars, osVars, reader, el, bridgeVars>>

BotStartCall == Len(procs) < MaxSpawn /\ \E ok \in BOOLEAN : Bot_start(ok)

BotSendCall ==
    /\ impl = "ClineTelegramBot"
    /\ Len(written) < MaxWrites
    /\ SendBegin(0, M_yes)

\* an update arrives from the chat
Dispatch ==
    \/ \E ok \in BOOLEAN : StartBegin(user_id, ok)
    \/ StopBegin(user_id)
    \/ ResetBegin(user_id)
    \/ TextBegin

\* a suspended task of the bridge runs to its next await
TaskStep(t) ==
    \/ StartResume(t)
    \/ ResetAwaited(t)
    \/ ResetSlept(t)
    \/ MonitorCancelled(t)
    \/ MonitorExit(t)
    \/ MonitorPoll(t)
    \/ TextSend(t, tasks[t].text)
    \/ TextGet(t)

NextSession ==
    \/ Dispatch
    \/ \E t \in 1..Len(tasks) : TaskStep(t)
    \/ SendWrite
    \/ GetLoop
    \/ GetDecide
    \/ GetEnd
    \/ FeedSession
    \/ AgentAppend
    \/ BotAppend
    \/ BotOverflow
    \/ ReaderExit
    \/ Tick
    \/ BotStartCall
    \/ Bot_stop_begin
    \/ Bot_stop_join
    \/ BotSendCall

SpecSession == InitSession /\ [][NextSession]_vars

\* C5 as stated: PTYAgent.start() on a running session returns False and leaves the
\* children, the process handle, the descriptors and the reader thread as they were.
C5_StartWhileRunningRefused ==
    (impl \in PTYFamily /\ last.op = "start" /\ last.pre.running) =>
        /\ last.ret = FALSE
        /\ procs = last.pre.procs
        /\ process = last.pre.process
        /\ master_fd = last.pre.master_fd /\ slave_fd = last.pre.slave_fd
        /\ output_thread = last.pre.thread

\* C6 as stated: at most one child spawned for the session is alive, whatever the
\* interleaving of the handlers of /start, /stop, /reset and free text.
C6_AtMostOneLiveChild == impl \in PTYFamily => Cardinality(LiveChildren) <= 1

\* the session a call of stop() found was stopped already
FoundStopped == ~last.pre.running /\ ~last.pre.active

\* C7: stop() on a session that is stopped already changes none of the running flag, the
\* process handle, the descriptors, the queue and waiting_for_input; on a session that a
\* stop() has stopped it changes nothing at all, so two stops leave what one leaves.
C7_StopIdempotent ==
    (last.op = "stop" /\ FoundStopped) =>
        /\ is_running_flag = last.pre.running
        /\ process = last.pre.process
        /\ master_fd = last.pre.master_fd /\ slave_fd = last.pre.slave_fd
        /\ open_fds = last.pre.fds
        /\ output_queue = last.pre.queue
        /\ waiting_for_input = last.pre.waiting
        /\ last.pre.stop_reading => Snapshot = last.pre

\* C7 witness: the bridge stopped a PTYAgent that had been started and stopped before and
\* that still holds output and its process handle.
C7_Witness ==
    /\ impl \in PTYFamily
    /\ last.op = "stop" /\ FoundStopped
    /\ last.pre.stop_reading
    /\ last.pre.process # 0
    /\ last.pre.queue # << >>

\* C8: send_command on a session that is not running returns the not-running error and
\* changes nothing: no write, no child, no session or queue state; free text that arrives
\* while the session is not running is answered "not running" and goes no further.
C8_NotRunningRejected ==
    /\ (last.op = "send_command" /\ ~last.pre.running) =>
           /\ last.ret = NotRunningError
           /\ ~last.wrote
           /\ Snapshot = last.pre
    /\ (last.op = "text" /\ ~last.pre.running) =>
           /\ last.outcome = "not_running"
           /\ replies[Len(replies)] = [kind |-> "not_running"]
           /\ tasks[Len(tasks)].state = "done"
           /\ Snapshot = last.pre

\* C8 witness: the bridge forwarded free text to a PTYAgent that was stopped while the
\* handler waited for its "Message sent..." reply, and send_command refused.
C8_Witness ==
    /\ impl \in PTYFamily
    /\ last.op = "send_command"
    /\ ~last.pre.running
    /\ last.pre.process # 0
    /\ last.ret = NotRunningError
    /\ \E i \in 1..Len(replies) : replies[i] = [kind |-> "message_sent"]

\* C10: when send_command writes, the prompt state it found has been cleared: at the
\* write the session waits for input only if the classifier has detected a prompt since
\* the clear.
C10_ClearedBeforeWrite ==
    (last.op = "send_command" /\ last.wrote /\ ~last.reprompted) =>
        /\ ~last.pre.waiting
        /\ last.pre.prompt = EmptyStr

\* C10 witness: the session was waiting on a prompt when send_command was called, and the
\* command was written.
C10_Witness ==
    /\ last.op = "send_command"
    /\ last.wrote
    /\ last.waiting_at_clear
    /\ ~last.reprompted
    /\ written # << >>

(***************************************************************************)
(* SpecRouter: a bridge around a PTYAgent, a ClineAgent or an API agent,   *)
(* constructed or started by /start, that receives up to MaxRouterDispatch *)
(* updates at its three entry points, from the configured sender and from  *)
(* a stranger; the handlers interleave at their awaits.  The child writes  *)
(* up to MaxRouterFeed chunks, may die on its own, and the terminal may    *)
(* refuse a write.  A ClineTelegramBot is driven by calls of send_command. *)
(***************************************************************************)
MaxRouterDispatch == 2
MaxRouterFeed == 1

RouterTexts ==
    {M_start, M_stop, M_status, M_cancel, M_reset, M_help, M_plan, M_foo, M_foo_padded,
     M_yes, M_long}

\* what the chat service hands to an entry point: the Telegram CommandHandler takes the
\* six commands, the MessageHandler every other text, process_message everything
EntryTexts(entry) ==
    IF entry = "handle_command"
    THEN {m \in RouterTexts : FirstWord(m) \in BuiltInCommands}
    ELSE IF entry = "handle_all_text"
    THEN {m \in RouterTexts : FirstWord(m) \notin BuiltInCommands}
    ELSE RouterTexts

\* the bridge after a first /start: the agent runs and the output monitor task is live
StartedByBridge(i) ==
    /\ impl = i
    /\ is_running_flag = TRUE /\ session_active = FALSE /\ stop_reading = FALSE
    /\ master_fd = (IF i \in PTYFamily THEN 1 ELSE 0)
    /\ slave_fd = (IF i \in PTYFamily THEN 2 ELSE 0)
    /\ process = (IF i \in PTYFamily THEN 1 ELSE 0)
    /\ output_thread = (IF i \in PTYFamily THEN 1 ELSE 0)
    /\ output_queue = << >> /\ output_queue_lock = "free"
    /\ waiting_for_input = FALSE /\ input_prompt = EmptyStr /\ last_prompt_time = 0
    /\ prompts = 0
    /\ current_command = NoneValue /\ conversation_history = << >>
    /\ open_fds = (IF i \in PTYFamily THEN {1, 2} ELSE {})
    /\ procs = (IF i \in PTYFamily THEN <<"alive">> ELSE << >>)
    /\ written = << >>
    /\ reader = (IF i \in PTYFamily THEN ReaderIdle ELSE ReaderNone)
    /\ el = ElIdle
    /\ tasks = <<MonitorTask>> /\ output_monitor_task = 1 /\ replies = << >>
    /\ recent_hashes = << >> /\ last_message_time = [s \in Senders |-> -1]
    /\ last_cleanup = 0
    /\ now = 0
    /\ accepted = << >> /\ drained = FALSE /\ head_deferred = 0
    /\ last = Step("init")

RouterAgents == {"PTYAgent", "ClineAgent", "ACPAgent"}

InitRouter ==
    \/ \E i \in RouterAgents : Constructed(i) \/ StartedByBridge(i)
    \/ Started("ClineTelegramBot")

FeedRouter ==
    /\ Len(accepted) < MaxRouterFeed
    /\ \E output \in SessionOutputs : ReaderData(output)

RouterReceive ==
    /\ Dispatched < MaxRouterDispatch
    /\ \E entry \in Entries : \E sender \in Senders : \E m \in EntryTexts(entry) :
           Receive(entry, sender, m)

\* a suspended task of the bridge runs to its next await
RouterTaskStep(t) ==
    \/ StartResume(t)
    \/ ResetAwaited(t)
    \/ ResetSlept(t)
    \/ MonitorCancelled(t)
    \/ MonitorExit(t)
    \/ MonitorPoll(t)
    \/ TextSend(t, tasks[t].text)
    \/ \E response \in ApiResponses : TextApiReturns(t, response)
    \/ TextGet(t)
    \/ CustomGet(t)

RouterBotSend ==
    /\ impl = "ClineTelegramBot"
    /\ Len(written) < MaxWrites
    /\ SendBegin(0, M_yes)

NextRouter ==
    \/ RouterReceive
    \/ \E t \in 1..Len(tasks) : RouterTaskStep(t)
    \/ SendWrite
    \/ SendWriteFails
    \/ GetLoop
    \/ GetDecide
    \/ GetEnd
    \/ FeedRouter
    \/ AgentAppend
    \/ BotAppend
    \/ BotOverflow
    \/ ReaderExit
    \/ ChildDies
    \/ ReaderBreaks
    \/ RouterBotSend

SpecRouter == InitRouter /\ [][NextRouter]_vars


(***************************************************************************)
(* SpecRate: a started bridge that receives free text, short and           *)
(* oversized, at its two text entry points while time passes in steps of   *)
(* RateStepMs.  The child of a PTY agent stays silent.                     *)
(***************************************************************************)
MaxRateDispatch == 3
RateStepMs == 250
MaxRateNow == 750

RateTexts == {M_yes, M_long}

InitRate == StartedByBridge("PTYAgent") \/ StartedByBridge("ACPAgent")

RateReceive ==
    /\ Dispatched < MaxRateDispatch
    /\ \E entry \in {"handle_all_text", "process_message"} : \E m \in RateTexts :
           TextArrives(entry, user_id, m)

RateTick ==
    /\ now < MaxRateNow
    /\ now' = now + RateStepMs
    /\ last' = Step("tick")
    /\ UNCHANGED <<impl, sessionVars, promptVars, queueVars, osVars, reader, el, bridgeVars>>

RateTaskStep(t) ==
    \/ TextSend(t, tasks[t].text)
    \/ \E response \in ApiResponses : TextApiReturns(t, response)
    \/ TextGet(t)

NextRate ==
    \/ RateReceive
    \/ RateTick
    \/ \E t \in 1..Len(tasks) : RateTaskStep(t)
    \/ SendWrite

SpecRate == InitRate /\ [][NextRate]_vars

\* ClineTelegramBot.send_command: a prompt older than 30 s is stale
StaleMs == 30000

\* the prompt that send_command found had gone stale
StalePrompt == impl = "ClineTelegramBot" /\ now - last_prompt_time > StaleMs

\* C11 as stated: waiting_for_input goes from false to true only in the classifier, and
\* from true to false only in a send; and a send that found the session waiting on a
\* prompt that is not stale, with no new prompt detected since, has written its command:
\* a send that fails changes nothing.
C11_WaitingSetAndCleared ==
    [][ /\ (~waiting_for_input /\ waiting_for_input') => last'.op = "_process_output"
        /\ (waiting_for_input /\ ~waiting_for_input') => el'.pc = "send_write"
        /\ (/\ last'.op = "send_command"
            /\ last'.waiting_at_clear
            /\ ~last'.reprompted
            /\ ~StalePrompt) => last'.wrote
      ]_vars

\* a step in which the handler of free text ran up to its first await
TextHandled == last'.op = "text" /\ Len(tasks') = Len(tasks) + 1

\* C13: for the sender and a running agent, free text that arrives less than 500 ms after
\* the sender's last accepted message is refused and its handler ends without a send;
\* text within the size limit that arrives 500 ms or more after it, or first, is accepted
\* and its arrival becomes the time of the last accepted message; that time changes in no
\* other way, so accepted messages are at least 500 ms apart.
C13_RateLimit ==
    [][ /\ (TextHandled /\ is_running_flag) =>
             LET previous == last_message_time[user_id]
                 early == previous # -1 /\ now - previous < RateLimitMs
             IN  /\ early =>
                       /\ last'.outcome \in {"rate_limited", "too_long"}
                       /\ tasks'[Len(tasks')].state = "done"
                       /\ UNCHANGED <<last_message_time, written, conversation_history>>
                 /\ (~early /\ PyLen(last'.text) <= MaxMessageLength) =>
                       /\ last'.outcome = "accepted"
                       /\ tasks'[Len(tasks')].pc = "send"
                       /\ last_message_time'[user_id] = now
        /\ last_message_time' # last_message_time =>
             /\ TextHandled /\ last'.outcome = "accepted"
             /\ last_message_time' = [last_message_time EXCEPT ![user_id] = now]
             /\ last_message_time[user_id] = -1 \/ now - last_message_time[user_id] >= RateLimitMs
      ]_vars

\* C13 witness: a message was refused 250 ms after an accepted one, and one was accepted
\* exactly 500 ms after it.
C13_Witness ==
    /\ last.op = "text" /\ last.outcome = "accepted"
    /\ last.previous # -1 /\ last.at - last.previous = RateLimitMs
    /\ \E i \in 1..Len(replies) : replies[i] = [kind |-> "please_wait"]
    /\ Len(written) >= 1

\* a step in which the handler of an update from a sender other than the configured one
\* ran: the task it added
StrangerHandled ==
    /\ Len(tasks') = Len(tasks) + 1
    /\ tasks'[Len(tasks')].sender # user_id

\* C14: an update from a sender other than the configured one is answered "Unauthorized",
\* its handler ends at once, and nothing else changes: not the running flag or any other
\* session state, the terminal writes, the children, the output queue, the prompt state,
\* the conversation history, the rate-limit table, the duplicate history, the monitor
\* task or any other task.
C14_UnauthorizedNoEffect ==
    [][ StrangerHandled =>
          /\ replies' = Append(replies, [kind |-> "unauthorized",
                                         to |-> tasks'[Len(tasks')].sender])
          /\ tasks'[Len(tasks')].state = "done"
          /\ SubSeq(tasks', 1, Len(tasks)) = tasks
          /\ UNCHANGED <<sessionVars, promptVars, queueVars, osVars, reader, el,
                         output_monitor_task, recent_hashes, last_message_time, last_cleanup, now>>
      ]_vars

\* C14 witness: a stranger sent free text to a running agent that waits on a prompt, after
\* the configured sender's text was accepted; the stranger got the rejection.
C14_Witness ==
    /\ last.op = "unauthorized" /\ last.sender # user_id /\ last.text = M_yes
    /\ is_running_flag /\ waiting_for_input
    /\ last_message_time[user_id] # -1
    /\ replies[Len(replies)] = [kind |-> "unauthorized", to |-> last.sender]

\* slash-prefixed text whose command is neither built in nor a custom command of the agent
IsUnknownSlash(m) ==
    StartsWithSlash(m) /\ FirstWord(m) \notin (BuiltInCommands \cup custom_commands)

\* C15 as stated: slash-prefixed text of the configured sender that is neither a built-in
\* nor a custom command is answered with "Unknown command" and the command listing, its
\* handler ends there, and no such text is ever written to the terminal.
C15_UnknownSlashNotForwarded ==
    [][ /\ (/\ Len(tasks') = Len(tasks) + 1
            /\ tasks'[Len(tasks')].sender = user_id
            /\ IsUnknownSlash(tasks'[Len(tasks')].text)) =>
               /\ tasks'[Len(tasks')].kind = "unknown"
               /\ tasks'[Len(tasks')].state = "done"
               /\ replies' = Append(replies, [kind |-> "unknown_command",
                                              cmd |-> FirstWord(tasks'[Len(tasks')].text)])
        /\ Len(written') > Len(written) =>
               \A m \in RouterTexts :
                   IsUnknownSlash(PyStrip(m)) =>
                       written'[Len(written')].data # WithTerminator(PyStrip(m))
      ]_vars

\* the strings send_command returns when it has failed
SendErrors ==
    {"Error: Agent not running", "Error: PTY session not running",
     "Error: [Errno 9] Bad file descriptor",
     "Error sending command: [Errno 9] Bad file descriptor",
     "Error: No response from agent"}

\* C16 as stated: send_command returns one of its result strings whatever fails, and when
\* the handler of a forwarded free text has ended after send_command returned an error
\* string, that string has been sent to the chat.
C16_ErrorsSurfaced ==
    /\ last.op = "send_command" => last.ret \in SendErrors \cup {"Command sent", "Message sent"}
    /\ \A t \in 1..Len(tasks) :
           (tasks[t].kind = "text" /\ tasks[t].state = "done" /\ tasks[t].result \in SendErrors) =>
               \E i \in 1..Len(replies) :
                   replies[i] = [kind |-> "error", text |-> tasks[t].result]

\* the session state the last send_command was called in
AtSendCall == IF last.cleared THEN last.at_call ELSE last.pre

\* C17 as stated: a send_command called on a PTY session whose child has died returns the
\* not-running error and leaves the session not running.
C17_DeadChildDetected ==
    (/\ last.op = "send_command"
     /\ impl # "ACPAgent"
     /\ AtSendCall.process # 0
     /\ AtSendCall.procs[AtSendCall.process] = "dead") =>
        /\ last.ret = NotRunningError
        /\ ~is_running_flag

\* C18 as stated: when the handler of a free text that was accepted and forwarded stops
\* waiting for the agent's first output, it sends the sender exactly one of two things:
\* that output, or the notice that the command is still running and its output will
\* arrive later.
C18_OutputOrNotice ==
    [][ \A t \in 1..Len(tasks) :
            (/\ tasks[t].kind = "text" /\ tasks[t].pc = "get"
             /\ tasks[t].result \in {"Command sent", "Message sent"}
             /\ tasks'[t].state = "done") =>
                /\ Len(replies') = Len(replies) + 1
                /\ replies'[Len(replies')].kind \in {"output", "timeout_notice"}
      ]_vars

\* a step in which _reset_agent of a PTY agent reported success
ResetReported ==
    /\ Len(replies') = Len(replies) + 1
    /\ replies'[Len(replies')] = [kind |-> "reset_complete"]

\* C19 as stated: when _reset_agent of a PTY agent reports success, every output monitor
\* task but the one it has just created has ended, the duplicate history is empty, no
\* child but the one it has just spawned is alive, the session is running on that child,
\* and the new monitor task is live; _reset_agent of an API agent empties the conversation
\* history and leaves the running flag as it was.
C19_ResetComplete ==
    [][ /\ ResetReported =>
              /\ \A t \in 1..Len(tasks') :
                     (tasks'[t].kind = "monitor" /\ t # output_monitor_task') =>
                         tasks'[t].state = "done"
              /\ recent_hashes' = << >>
              /\ \A p \in 1..Len(procs') : p # process' => procs'[p] = "dead"
              /\ is_running_flag' /\ process' # 0 /\ procs'[process'] = "alive"
              /\ output_monitor_task' # 0
              /\ tasks'[output_monitor_task'].kind = "monitor"
              /\ tasks'[output_monitor_task'].state = "ready"
        /\ last'.op = "api_reset" =>
              /\ conversation_history' = << >>
              /\ UNCHANGED is_running_flag
      ]_vars

TracksLiveChild == process # 0 /\ procs[process] = "alive"

\* C21 as stated: when stop() has completed on a running session, the reader has been
\* told to stop, the terminal descriptors the session held are closed, the output queue
\* is empty and the session is idle: not running, no live child tracked.
C21_StopLeavesIdle ==
    (last.op = "stop" /\ last.pre.running) =>
        /\ stop_reading
        /\ last.pre.master_fd \notin open_fds
        /\ last.pre.slave_fd \notin open_fds
        /\ output_queue = << >>
        /\ ~is_running_flag /\ ~session_active
        /\ ~TracksLiveChild

\* a call of start() on an idle session whose child had exited by the end of the 0.5 s wait
StartFoundChildDead ==
    /\ last.op = "start"
    /\ ~last.pre.running /\ ~last.pre.active
    /\ last.ret = FALSE

\* C22 as stated: when the child exits within the wait of start(), start() returns False
\* and leaves the session not running, with the two descriptors it opened closed again, no
\* child tracked and no reader thread started.
C22_FailedStartReleases ==
    StartFoundChildDead =>
        /\ ~is_running_flag /\ ~session_active
        /\ open_fds = last.pre.fds
        /\ process = 0
        /\ output_thread = last.pre.thread

\* the reader thread is not running: never started, or it has left its loop
ReaderEnded == reader.pc = "none"

\* C23 as stated: a session with a child process never holds its running flag while no
\* live child exists, once the condition that ended the child has been handled: the reader
\* has left its loop, start() has failed, or stop() has run.
C23_RunningHasProcess ==
    (impl # "ACPAgent" /\ ReaderEnded /\ is_running_flag) => TracksLiveChild

(***************************************************************************)
(* SpecCustom: the bridge around an agent with custom commands, ClineAgent *)
(* or an agent that declares /act and leaves its handling to               *)
(* AgentInterface.  Up to MaxCustomDispatch updates arrive by the Telegram *)
(* handlers or by process_message; the child writes up to MaxCustomFeed    *)
(* chunks.                                                                 *)
(***************************************************************************)
MaxCustomDispatch == 2
MaxCustomFeed == 1

CustomAgents == {"ClineAgent", "DeclaringAgent"}

M_act_now == Text(<<"/", "a", "c", "t", " ", "n", "o", "w">>)

CustomTexts == {M_plan, M_act, M_act_now, M_stop, M_yes}

\* what the chat service hands to an entry point (see EntryTexts)
CustomEntryTexts(entry) ==
    IF entry = "handle_command"
    THEN {m \in CustomTexts : FirstWord(m) \in BuiltInCommands}
    ELSE IF entry = "handle_all_text"
    THEN {m \in CustomTexts : FirstWord(m) \notin BuiltInCommands}
    ELSE CustomTexts

InitCustom == \E i \in CustomAgents : Constructed(i) \/ StartedByBridge(i)

FeedCustom ==
    /\ Len(accepted) < MaxCustomFeed
    /\ ReaderData(Text(T_Hello))

CustomReceive ==
    /\ Dispatched < MaxCustomDispatch
    /\ \E entry \in Entries : \E m \in CustomEntryTexts(entry) :
           \/ Route(entry, m) = "custom" /\ CustomBegin(user_id, Handed(entry, m))
           \/ Route(entry, m) = "/stop" /\ StopBegin(user_id)
           \/ Route(entry, m) = "text" /\ TextArrives(entry, user_id, Handed(entry, m))

CustomTaskStep(t) ==
    \/ MonitorExit(t)
    \/ MonitorPoll(t)
    \/ TextSend(t, tasks[t].text)
    \/ TextGet(t)
    \/ CustomGet(t)
    \/ ForwardGet(t)

NextCustom ==
    \/ CustomReceive
    \/ \E t \in 1..Len(tasks) : CustomTaskStep(t)
    \/ SendWrite
    \/ GetLoop
    \/ GetDecide
    \/ GetEnd
    \/ FeedCustom
    \/ AgentAppend
    \/ ReaderExit

SpecCustom == InitCustom /\ [][NextCustom]_vars

\* the handlers of custom commands
CustomTasks == {t \in 1..Len(tasks) : tasks[t].kind = "custom"}

\* the agent answers the command of the task itself: ClineAgent answers every command of
\* its table, the agent that only declares /act answers none
Answered(t) == impl = "ClineAgent"

\* written[i] is the text with its line end
Forwarded(text) == \E i \in 1..Len(written) : written[i].data = WithTerminator(text)

\* C24: a custom command that arrives while the agent is not running is answered "not
\* running" and changes nothing; otherwise the agent's handle_custom_command gets it.  When
\* the handler answers, the bridge replies with the handler's response and forwards
\* nothing itself: one write per dispatch.  When the handler returns None, the bridge
\* forwards the whole text with send_command, then calls get_output and replies with the
\* output there is.
C24_CustomCommandHandling ==
    /\ (last.op = "custom" /\ ~last.pre.running) =>
           /\ replies[Len(replies)] = [kind |-> "not_running"]
           /\ tasks[Len(tasks)].state = "done"
           /\ Snapshot = last.pre
    /\ \A t \in CustomTasks :
           tasks[t].state # "done" =>
               tasks[t].pc \in (IF Answered(t) THEN {"custom_send", "custom_sleep"}
                                ELSE {"forward_send", "forward_sleep"})
    /\ (last.op = "get_output" /\ last.caller \in CustomTasks) =>
           LET t == last.caller
           IN  /\ tasks[t].state = "done"
               /\ IF Answered(t)
                  THEN replies[Len(replies)] =
                           [kind |-> "custom_response", result |-> tasks[t].result,
                            output |-> last.ret]
                  ELSE /\ tasks[t].result = "Command sent" => Forwarded(tasks[t].text)
                       /\ last.ret.kind = "Message" =>
                              replies[Len(replies)] =
                                  [kind |-> "output", content |-> last.ret.content]
    /\ Len(written) = Cardinality({t \in 1..Len(tasks) : tasks[t].result = "Command sent"})

\* C24 witness: the handler of "/act now" returned None, the bridge forwarded the whole
\* text and replied with the output it fetched.
C24_Witness ==
    /\ last.op = "get_output"
    /\ last.caller \in CustomTasks
    /\ ~Answered(last.caller)
    /\ tasks[last.caller].text = M_act_now
    /\ Forwarded(M_act_now)
    /\ last.ret.kind = "Message"
    /\ replies[Len(replies)].kind = "output"

(***************************************************************************)
(* SpecDedup: the output monitor of a bridge around a running PTYAgent.    *)
(* The child writes up to MaxDedupFeed chunks, one between two polls of    *)
(* the monitor, each a content not seen before or the first content again; *)
(* one /reset may arrive.                                                  *)
(***************************************************************************)
MaxDedupFeed == 13
MaxDedupDispatch == 1

\* the n-th content the child writes: n characters
DedupContent(n) == [pad |-> n, text |-> << >>]

\* how many contents the child has written so far
DistinctFed ==
    IF accepted = << >> THEN 0
    ELSE CHOOSE n \in 1..MaxDedupFeed :
             /\ \E i \in 1..Len(accepted) : accepted[i] = DedupContent(n)
             /\ \A i \in 1..Len(accepted) : accepted[i].pad <= n

InitDedup == StartedByBridge("PTYAgent")

FeedDedup ==
    /\ Len(accepted) < MaxDedupFeed
    /\ output_queue = << >>
    /\ el.pc = "idle"
    /\ \E n \in {1, DistinctFed + 1} : ReaderData(DedupContent(n))

ResetDedup ==
    /\ Dispatched < MaxDedupDispatch
    /\ ResetBegin(user_id)

DedupTaskStep(t) ==
    \/ MonitorPoll(t)
    \/ MonitorCancelled(t)
    \/ ResetAwaited(t)
    \/ ResetSlept(t)

NextDedup ==
    \/ FeedDedup
    \/ AgentAppend
    \/ \E t \in 1..Len(tasks) : DedupTaskStep(t)
    \/ GetLoop
    \/ GetDecide
    \/ GetEnd
    \/ ResetDedup
    \/ ReaderExit

SpecDedup == InitDedup /\ [][NextDedup]_vars

\* the place of the last reply of /reset among the replies, or 0
LastResetReply ==
    IF \E i \in 1..Len(replies) : replies[i].kind \in {"reset_complete", "reset_failed"}
    THEN CHOOSE i \in 1..Len(replies) :
             /\ replies[i].kind \in {"reset_complete", "reset_failed"}
             /\ \A j \in (i + 1)..Len(replies) :
                    replies[j].kind \notin {"reset_complete", "reset_failed"}
    ELSE 0

RECURSIVE MonitorContents(_)
\* the contents the output monitor has forwarded, in order, among the replies r
MonitorContents(r) ==
    IF r = << >> THEN << >>
    ELSE IF Head(r).kind = "monitor_output"
    THEN <<Head(r).content>> \o MonitorContents(Tail(r))
    ELSE MonitorContents(Tail(r))

\* the contents forwarded by the output monitor since the last /reset
ForwardedSinceReset == MonitorContents(SubSeq(replies, LastResetReply + 1, Len(replies)))

\* C25: the fingerprint history holds the (at most 10) contents the output monitor
\* forwarded last since the last /reset, oldest first, so it never holds more than 10;
\* and a content is forwarded a second time without a /reset in between only after 10
\* other contents have been forwarded.
C25_RecentDuplicatesSuppressed ==
    /\ Len(recent_hashes) <= RecentHashesMaxLen
    /\ recent_hashes = LastN(ForwardedSinceReset, RecentHashesMaxLen)
    /\ \A i, j \in 1..Len(ForwardedSinceReset) :
           (i < j /\ ForwardedSinceReset[i] = ForwardedSinceReset[j]) =>
               /\ j - i > RecentHashesMaxLen
               /\ Cardinality({ForwardedSinceReset[k] : k \in (i + 1)..(j - 1)})
                      >= RecentHashesMaxLen

\* C25 witness: the first content was forwarded, suppressed when it came again, and
\* forwarded again after 10 other contents, with no /reset; the history is full.
C25_Witness ==
    /\ LastResetReply = 0
    /\ Len(ForwardedSinceReset) = RecentHashesMaxLen + 2
    /\ ForwardedSinceReset[1] = ForwardedSinceReset[RecentHashesMaxLen + 2]
    /\ Len(accepted) = MaxDedupFeed
    /\ Len(recent_hashes) = RecentHashesMaxLen

(***************************************************************************)
(* ACPAgent.                                                               *)
(***************************************************************************)
UserTurn(command) == [role |-> "user", content |-> command]
AssistantTurn(response) == [role |-> "assistant", content |-> response]

\* the session state start() and stop() of an ACPAgent leave alone
BesidesRunning(s) == [s EXCEPT !.running = FALSE]

\* C26: send_command of a running ACPAgent appends one user turn to the history and
\* passes the endpoint the whole history, that turn included; when the endpoint answers,
\* it appends one assistant turn and puts the answer in the output queue; when the request
\* fails or the answer is empty, it leaves the history and the queue as they are; start()
\* and stop() set the running flag, empty the history, and touch nothing else.
C26_ApiTurns ==
    impl = "ACPAgent" =>
        /\ last.op = "api_request" =>
               /\ conversation_history = Append(last.history, UserTurn(last.command))
               /\ last.messages = conversation_history
        /\ (last.op = "send_command" /\ last.pre.running /\ last.caller # 0) =>
               IF last.response \in {NoneValue, EmptyStr}
               THEN /\ last.ret = "Error: No response from agent"
                    /\ conversation_history = last.history
                    /\ output_queue = last.pre.queue
               ELSE /\ last.ret = "Message sent"
                    /\ conversation_history =
                           Append(last.history, AssistantTurn(last.response))
                    /\ output_queue =
                           BoundedAppend(last.pre.queue, last.response, ApiQueueMaxLen)
        /\ last.op \in {"start", "stop"} =>
               /\ is_running_flag = (last.op = "start")
               /\ conversation_history = << >>
               /\ BesidesRunning(Snapshot) = BesidesRunning(last.pre)

\* C26 witness: the endpoint answered the first message of a started agent: the history
\* holds the user turn and the assistant turn, and the answer is queued.
C26_Witness ==
    /\ impl = "ACPAgent"
    /\ last.op = "send_command"
    /\ last.ret = "Message sent"
    /\ last.history = <<UserTurn(M_yes)>>
    /\ conversation_history = <<UserTurn(M_yes), AssistantTurn(ApiAnswer)>>
    /\ output_queue = <<ApiAnswer>>

(***************************************************************************)
(* SpecSink: what reaches the chat sink.  A running PTYAgent whose child   *)
(* writes up to MaxSinkFeed chunks, or a running ACPAgent whose endpoint   *)
(* answers briefly or at length; free text arrives up to MaxSinkDispatch   *)
(* times, and the output monitor polls.                                    *)
(***************************************************************************)
MaxSinkDispatch == 2
MaxSinkFeed == 2
SinkStepMs == 500
MaxSinkNow == 500

\* one os.read of the terminal: as many characters as a message may hold, or one
SinkOutputs == {[pad |-> OutputCeiling, text |-> << >>], [pad |-> 1, text |-> << >>]}

InitSink == StartedByBridge("PTYAgent") \/ StartedByBridge("ACPAgent")

FeedSink ==
    /\ Len(accepted) < MaxSinkFeed
    /\ \E output \in SinkOutputs : ReaderData(output)

SinkReceive ==
    /\ Dispatched < MaxSinkDispatch
    /\ \E entry \in {"handle_all_text", "process_message"} :
           TextArrives(entry, user_id, M_yes)

SinkTick ==
    /\ now < MaxSinkNow
    /\ now' = now + SinkStepMs
    /\ last' = Step("tick")
    /\ UNCHANGED <<impl, sessionVars, promptVars, queueVars, osVars, reader, el, bridgeVars>>

SinkTaskStep(t) ==
    \/ MonitorPoll(t)
    \/ TextSend(t, tasks[t].text)
    \/ \E response \in {ApiAnswer, ApiLongAnswer} : TextApiReturns(t, response)
    \/ TextGet(t)

NextSink ==
    \/ SinkReceive
    \/ SinkTick
    \/ \E t \in 1..Len(tasks) : SinkTaskStep(t)
    \/ SendWrite
    \/ GetLoop
    \/ GetDecide
    \/ GetEnd
    \/ FeedSink
    \/ AgentAppend

SpecSink == InitSink /\ [][NextSink]_vars

\* the length of the agent output in a message to the chat sink
SinkLen(reply) ==
    IF reply.kind = "output" THEN RopeLen(reply.content)
    ELSE IF reply.kind = "monitor_output" THEN Len(reply.content)
    ELSE 0

\* C27 as stated: no agent output the bridge sends to the chat, by the output monitor or
\* as the first output after a message, is longer than 4000 characters.
C27_SinkWithinLimit ==
    \A i \in 1..Len(replies) : SinkLen(replies[i]) <= OutputCeiling

(***************************************************************************)
(* SpecStrip: strip_ansi_codes applied once and again to every text of up  *)
(* to MaxStripLen characters over StripAlphabet.                           *)
(***************************************************************************)
MaxStripLen == 4

\* ESC, the bracket of a CSI sequence, a parameter digit, and two final bytes
StripAlphabet == {"ESC", "[", "0", "m", "A"}

StripInputs == UNION {[1..n -> StripAlphabet] : n \in 0..MaxStripLen}

InitStrip ==
    /\ ConstructedState("PTYAgent")
    /\ \E s \in StripInputs : last = [op |-> "text", text |-> Text(s)]

StripOnce ==
    /\ last.op = "text"
    /\ last' = [op |-> "strip_ansi_codes", text |-> last.text,
                once |-> strip_ansi_codes(last.text)]
    /\ UNCHANGED <<impl, sessionVars, promptVars, queueVars, osVars, reader, el, bridgeVars,
                   now>>

StripAgain ==
    /\ last.op = "strip_ansi_codes"
    /\ last' = [op |-> "strip_ansi_codes_again", text |-> last.text, once |-> last.once,
                twice |-> strip_ansi_codes(last.once)]
    /\ UNCHANGED <<impl, sessionVars, promptVars, queueVars, osVars, reader, el, bridgeVars,
                   now>>

NextStrip == StripOnce \/ StripAgain

SpecStrip == InitStrip /\ [][NextStrip]_vars

\* C28 as stated: strip_ansi_codes(strip_ansi_codes(s)) = strip_ansi_codes(s).
C28_StripIdempotent ==
    last.op = "strip_ansi_codes_again" => last.twice = last.once

(***************************************************************************)
(* SpecStamp: a started bridge that receives free text, short and          *)
(* oversized, and /stop, while the wall clock that time.time() reads moves *)
(* among StampTimes, forward and, when the system clock is set, backward.  *)
(***************************************************************************)
MaxStampDispatch == 3

\* moments around the rate limit, the cleanup interval and the age of a stale entry
StampTimes ==
    {0, RateLimitMs, CleanupIntervalMs + 1, StaleEntryMs + RateLimitMs + 1,
     StaleEntryMs + CleanupIntervalMs + RateLimitMs + 2}

InitStamp == StartedByBridge("PTYAgent") \/ StartedByBridge("ACPAgent")

StampReceive ==
    /\ Dispatched < MaxStampDispatch
    /\ \E entry \in {"handle_all_text", "process_message"} : \E m \in RateTexts :
           TextArrives(entry, user_id, m)

StampStop ==
    /\ Dispatched < MaxStampDispatch
    /\ StopBegin(user_id)

StampClock ==
    /\ \E t \in StampTimes \ {now} : now' = t
    /\ last' = Step("clock")
    /\ UNCHANGED <<impl, sessionVars, promptVars, queueVars, osVars, reader, el, bridgeVars>>

NextStamp ==
    \/ StampReceive
    \/ StampStop
    \/ StampClock
    \/ \E t \in 1..Len(tasks) : RateTaskStep(t)
    \/ SendWrite

SpecStamp == InitStamp /\ [][NextStamp]_vars

\* C29: the time stored for a sender never decreases and, once stored, is never absent
\* after a handler has run (absent counts as smaller than every time): whatever the
\* clock does, each value written is at least the value stored before it, so it is at
\* least every value stored earlier.
C29_StampsMonotonic ==
    [][\A uid \in Senders : last_message_time'[uid] >= last_message_time[uid]]_vars

\* C29 witness: after the clock had stepped back and a message was refused for it, the
\* cleanup dropped the sender's entry, by then stale, and the handler stored the later
\* time in its place.
C29_Witness ==
    /\ last.op = "text" /\ last.outcome = "accepted" /\ last.cleanup
    /\ last.previous # -1 /\ last.at - last.previous > StaleEntryMs
    /\ last_message_time[user_id] = last.at /\ last_cleanup = last.at
    /\ \E i \in 1..Len(replies) : replies[i] = [kind |-> "please_wait"]

(***************************************************************************)
(* SpecTree: a started PTYAgent or ClineTelegramBot whose child has        *)
(* subprocesses of its own, up to MaxTreeSize processes in a chain: pid 1  *)
(* is the child the session tracks, pid p + 1 was spawned by pid p.  Any   *)
(* process may exit on its own, at any time, or ignore SIGTERM.  stop()    *)
(* runs in three steps: the terminate calls, the settle delay (during      *)
(* which processes exit or spawn), the kill calls.                         *)
(***************************************************************************)
MaxTreeSize == 3

\* the processes still under pid: a process whose parent has exited is re-parented and
\* no longer among the descendants of its former ancestors
TreeOf(pid) == {p \in pid..Len(procs) : \A r \in pid..(p - 1) : procs[r] = "alive"}

Alive(pids) == {p \in pids : procs[p] = "alive"}

\* _find_child_processes: parent.children(recursive=True) and the parent itself; nothing
\* when the parent is gone (stop_pty_session has polled, and so reaped, a dead child)
find_child_processes(parent_pid) ==
    IF procs[parent_pid] = "dead" THEN {} ELSE TreeOf(parent_pid)

InitTree == Started("PTYAgent") \/ Started("ClineTelegramBot")

\* the deepest process starts a subprocess
TreeSpawn ==
    /\ Len(procs) < MaxTreeSize
    /\ procs[Len(procs)] = "alive"
    /\ procs' = Append(procs, "alive")
    /\ UNCHANGED <<impl, sessionVars, promptVars, queueVars, open_fds, written, reader, el,
                   bridgeVars, now, last>>

\* a process exits, of its own accord or on a SIGTERM it has received
TreeExit ==
    /\ \E p \in Alive(1..Len(procs)) : procs' = [procs EXCEPT ![p] = "dead"]
    /\ UNCHANGED <<impl, sessionVars, promptVars, queueVars, open_fds, written, reader, el,
                   bridgeVars, now, last>>

\* PTYAgent.stop() up to time.sleep(0.5): the flags and self.process.terminate()
PTYAgent_stop_terminate ==
    /\ impl \in PTYFamily
    /\ el.pc = "idle"
    /\ process # 0
    /\ stop_reading' = TRUE
    /\ is_running_flag' = FALSE
    /\ el' = [ElIdle EXCEPT !.pc = "stop_settle", !.pre = Snapshot]
    /\ last' = [op |-> "terminated", members |-> Alive(TreeOf(process)),
                terminated |-> {process}, survivors |-> {}, killed |-> {}]
    /\ UNCHANGED <<impl, session_active, master_fd, slave_fd, process, output_thread,
                   current_command, conversation_history, promptVars, queueVars, osVars,
                   reader, bridgeVars, now>>

\* PTYAgent.stop() after the sleep: if self.process.poll() is None: self.process.kill()
PTYAgent_stop_kill ==
    /\ impl \in PTYFamily
    /\ el.pc = "stop_settle"
    /\ procs' = [p \in 1..Len(procs) |-> IF p = process THEN "dead" ELSE procs[p]]
    /\ el' = ElIdle
    /\ last' = [last EXCEPT !.op = "killed", !.survivors = Alive(last.members),
                            !.killed = Alive({process})]
    /\ UNCHANGED <<impl, sessionVars, promptVars, queueVars, open_fds, written, reader,
                   bridgeVars, now>>

\* stop_pty_session up to the time.sleep(0.5) of _kill_process_tree: the flags, and
\* process.terminate() for every process that _find_child_processes returned
Bot_stop_terminate ==
    /\ impl = "ClineTelegramBot"
    /\ el.pc = "idle"
    /\ session_active
    /\ process # 0
    /\ stop_reading' = TRUE
    /\ session_active' = FALSE
    /\ el' = [ElIdle EXCEPT !.pc = "stop_settle", !.pre = Snapshot]
    /\ last' = [op |-> "terminated", members |-> Alive(TreeOf(process)),
                terminated |-> find_child_processes(process), survivors |-> {},
                killed |-> {}]
    /\ UNCHANGED <<impl, is_running_flag, master_fd, slave_fd, process, output_thread,
                   current_command, conversation_history, promptVars, queueVars, osVars,
                   reader, bridgeVars, now>>

\* _kill_process_tree after the sleep: process.kill() for every process of the list that
\* still runs; then _ensure_session_clean, which puts every process whose command line
\* names cline (cline_pids: the code does not determine which these are) through
\* _kill_process_tree
Bot_stop_kill ==
    /\ impl = "ClineTelegramBot"
    /\ el.pc = "stop_settle"
    /\ \E cline_pids \in SUBSET Alive((1..Len(procs)) \ last.terminated) :
          procs' = [p \in 1..Len(procs) |->
                       IF \/ p \in last.terminated
                          \/ \E c \in cline_pids : p \in find_child_processes(c)
                       THEN "dead" ELSE procs[p]]
    /\ el' = [el EXCEPT !.pc = "stop_join"]
    /\ last' = [last EXCEPT !.op = "killed", !.survivors = Alive(last.members),
                            !.killed = Alive(last.terminated)]
    /\ UNCHANGED <<impl, sessionVars, promptVars, queueVars, open_fds, written, reader,
                   bridgeVars, now>>

NextTree ==
    \/ TreeSpawn
    \/ TreeExit
    \/ PTYAgent_stop_terminate
    \/ PTYAgent_stop_kill
    \/ Bot_stop_terminate
    \/ Bot_stop_kill
    \/ Bot_stop_join

SpecTree == InitTree /\ [][NextTree]_vars

\* C30 as stated: stop() sends terminate to every live process of the tracked child's
\* tree, the child included, before it kills any; after the settle delay it kills the
\* members that are still alive and no others; and when it is done no member of the tree
\* is alive.
C30_TwoPhaseTeardown ==
    /\ last.op = "terminated" => (last.members \subseteq last.terminated /\ last.killed = {})
    /\ last.op = "killed" =>
          /\ last.members \subseteq last.terminated
          /\ last.killed = last.survivors
          /\ Alive(last.members) = {}

(***************************************************************************)
(* The output monitor and the running agent.                               *)
(***************************************************************************)
\* the _output_monitor tasks that have not ended
LiveMonitors == {t \in 1..Len(tasks) : tasks[t].kind = "monitor" /\ tasks[t].state # "done"}

\* a /start or /reset handler has not yet run to its end
StartInFlight ==
    \E t \in 1..Len(tasks) : tasks[t].kind \in {"/start", "/reset"} /\ tasks[t].state # "done"

\* C31 as stated: once the handlers of /start and /reset have run to their end, a running
\* agent has a live output monitor task polling it.
C31_MonitorLiveWhileRunning ==
    (impl \in BridgeAgents /\ is_running_flag /\ ~StartInFlight) => LiveMonitors # {}

(***************************************************************************)
(* The command lock.                                                       *)
(***************************************************************************)
\* a send_command is between its running check and its os.write
InSend == el.pc = "send_write"

\* C32: from the running check of a send_command to its write no other send_command or
\* /cancel enters and the running flag and the descriptor stay as they were checked; the
\* only write in between is the command of that send with its terminator; and every
\* write appends one whole command or the interrupt character, to a running session.
C32_WritesSerialized ==
    [][ /\ InSend =>
             /\ el' = el \/ el'.pc = "idle"
             /\ is_running_flag' = is_running_flag /\ master_fd' = master_fd
             /\ written' # written =>
                    written' = Append(written, [fd |-> master_fd,
                                                data |-> WithTerminator(el.command)])
        /\ written' # written =>
             /\ is_running_flag
             /\ Len(written') = Len(written) + 1
             /\ SubSeq(written', 1, Len(written)) = written
             /\ \/ InSend /\ written'[Len(written')].data = WithTerminator(el.command)
                \/ ~InSend /\ written'[Len(written')].data = CancelData
      ]_vars

\* C32 witness: /cancel was dispatched while the handler of a text message was waiting
\* to call send_command; the terminal got the interrupt character and then the command.
C32_Witness ==
    /\ impl \in PTYFamily
    /\ Len(written) = 2
    /\ written[1].data = CancelData
    /\ written[2].data = WithTerminator(M_yes)

(***************************************************************************)
(* SpecReader: the reader thread of a started PTYAgent or ClineTelegramBot *)
(* beside a child that writes up to MaxReaderFeed chunks and may die, a    *)
(* terminal whose reads may raise, and a stop.  SpecReaderLive adds that   *)
(* the thread, once it can take a step of its loop, does take it.          *)
(***************************************************************************)
MaxReaderFeed == 1
MaxReaderDispatch == 1

InitReader == Started("PTYAgent") \/ Started("ClineTelegramBot")

FeedReader ==
    /\ Len(accepted) < MaxReaderFeed
    /\ \E output \in SessionOutputs : ReaderData(output)

ReaderStop ==
    /\ Dispatched < MaxReaderDispatch
    /\ StopBegin(user_id)

NextReader ==
    \/ FeedReader
    \/ AgentAppend
    \/ BotAppend
    \/ BotOverflow
    \/ ChildDies
    \/ ReaderError
    \/ ReaderBreaks
    \/ ReaderExit
    \/ ReaderStop
    \/ Bot_stop_begin
    \/ Bot_stop_join

SpecReader == InitReader /\ [][NextReader]_vars

SpecReaderLive ==
    /\ SpecReader
    /\ WF_vars(ReaderExit)
    /\ WF_vars(AgentAppend)
    /\ WF_vars(BotAppend)
    /\ WF_vars(BotOverflow)

\* a reader thread left its loop by a break: at EOF or with the error budget used up
ReaderBroke ==
    /\ last'.op \in {"reader_break", "read_error"}
    /\ reader'.threads < reader.threads

\* C33: a reader thread that leaves its loop by itself, at EOF or over the error budget,
\* changes nothing of the session: the flags, the descriptors and their being open, the
\* process handle and the child, the prompt state and the output queue stay as they
\* were.
C33_ReaderExitReleasesNothing ==
    [][ReaderBroke => UNCHANGED <<sessionVars, promptVars, queueVars, osVars>>]_vars

\* C33 witness: the reader left at EOF while the session was waiting on a prompt with a
\* chunk queued; the flag is still set, both descriptors are open, the handle is kept.
C33_Witness ==
    /\ last.op = "reader_break" /\ reader.pc = "none"
    /\ is_running_flag /\ waiting_for_input /\ Len(output_queue) = 1
    /\ {master_fd, slave_fd} \subseteq open_fds /\ process # 0

\* C34: the loop of the reader thread ends: on a read that returns no data; on the
\* error that takes error_count over 10, and on no earlier error; and once stop has set
\* the stop signal the thread reads nothing more and leaves the loop.
C34_ReaderLoopEnds ==
    /\ [][ /\ last'.op = "reader_break" => reader'.threads = reader.threads - 1
           /\ last'.op = "read_error" =>
                 IF reader.errors < ErrorBudget
                 THEN reader'.pc = "poll" /\ reader'.errors = reader.errors + 1
                 ELSE reader'.threads = reader.threads - 1
           /\ (stop_reading /\ reader.pc = "poll" /\ reader' # reader) =>
                 reader'.threads < reader.threads
         ]_vars
    /\ (stop_reading /\ reader.pc # "none") ~> (reader.pc = "none")

\* C34 witness: the reader of a PTYAgent had read a chunk, then met eleven errors in a
\* row and left the loop at the eleventh, no stop having been asked for.
C34_Witness ==
    /\ last.op = "read_error" /\ last.error_count = ErrorBudget + 1
    /\ reader.pc = "none" /\ ~stop_reading
    /\ Len(accepted) = 1

\* C35 as stated: at most one reader thread of a session runs its loop at any time.
C35_OneReader == reader.threads <= 1


\* C36 as stated: once _process_output and get_pending_output have completed, the queue
\* of ClineTelegramBot holds at most 100 entries.
C36_BotQueueBounded ==
    (impl = "ClineTelegramBot" /\ reader.pc = "poll" /\ el.pc = "idle") =>
        Len(output_queue) <= QueueMaxLen

\* C37 as stated: at most one output monitor task of the bridge is live.
C37_OneMonitor == Cardinality(LiveMonitors) <= 1

(***************************************************************************)
(* SpecDrain: two consumers of one PTYAgent queue.  The child writes up to *)
(* MaxDrainFeed chunks, each different from the ones before it, short or   *)
(* about half a message long; free text arrives up to MaxDrainDispatch     *)
(* times, so that the dispatcher's first-output fetch and the output       *)
(* monitor both call get_output.                                           *)
(***************************************************************************)
MaxDrainFeed == 3
MaxDrainDispatch == 2
DrainStepMs == 1000
MaxDrainNow == 1000
DrainHalf == 2000

\* the n-th chunk the child writes: n decides its length, so no two are equal
DrainOutputs(n) == {[pad |-> 1 + n, text |-> << >>], [pad |-> DrainHalf + n, text |-> << >>]}

InitDrain == StartedByBridge("PTYAgent")

FeedDrain ==
    /\ Len(accepted) < MaxDrainFeed
    /\ \E output \in DrainOutputs(Len(accepted)) : ReaderData(output)

DrainReceive ==
    /\ Dispatched < MaxDrainDispatch
    /\ \E entry \in {"handle_all_text", "process_message"} :
           TextArrives(entry, user_id, M_yes)

DrainTick ==
    /\ now < MaxDrainNow
    /\ now' = now + DrainStepMs
    /\ last' = Step("tick")
    /\ UNCHANGED <<impl, sessionVars, promptVars, queueVars, osVars, reader, el, bridgeVars>>

DrainTaskStep(t) ==
    \/ MonitorPoll(t)
    \/ TextSend(t, tasks[t].text)
    \/ TextGet(t)

NextDrain ==
    \/ DrainReceive
    \/ DrainTick
    \/ \E t \in 1..Len(tasks) : DrainTaskStep(t)
    \/ SendWrite
    \/ GetLoop
    \/ GetDecide
    \/ GetEnd
    \/ FeedDrain
    \/ AgentAppend

SpecDrain == InitDrain /\ [][NextDrain]_vars

\* the chunks not yet returned: those a running call holds, then the queue
Undelivered ==
    el.combined \o (IF el.pc = "get_popped" THEN <<el.chunk>> ELSE << >>) \o output_queue

\* s is the tail end of t
IsSuffix(s, t) == Len(s) <= Len(t) /\ s = SubSeq(t, Len(t) - Len(s) + 1, Len(t))

InGet == el.pc \in {"get_loop", "get_popped", "get_end"}

\* C38: every accepted chunk is returned by get_output at most once and in the
\* order of acceptance, whichever of the first-output fetch and the output
\* monitor makes each call: the chunks not yet returned are always the latest
\* accepted ones in their order, a call keeps every one of them that it does not
\* return, and it returns the stripped concatenation of the oldest of them.
C38_DrainInOrder ==
    /\ [](impl = "PTYAgent" => IsSuffix(Undelivered, accepted))
    /\ [][impl = "PTYAgent" =>
            /\ (InGet /\ el'.pc # "idle") =>
                   /\ Undelivered' = Undelivered
                   /\ accepted' = accepted
                   /\ el'.caller = el.caller
            /\ (el.pc = "get_end" /\ el'.pc = "idle") =>
                   /\ last'.op = "get_output"
                   /\ last'.ret = AgentResult(el.combined)
                   /\ output_queue' = output_queue
                   /\ accepted' = accepted
            /\ (~InGet /\ ~InGet') =>
                   \/ output_queue' = output_queue
                   \/ /\ Len(accepted') = Len(accepted) + 1
                      /\ output_queue' = Append(output_queue, accepted'[Len(accepted')])
                   \/ last'.op = "get_output" /\ last'.ret = NoneValue]_vars

\* the first-output fetch returned the two oldest chunks, a third stayed at the
\* head for the monitor, which returned it afterwards
C38_Witness ==
    /\ impl = "PTYAgent"
    /\ Len(accepted) = 3
    /\ Len(replies) >= 2
    /\ \E i \in 1..Len(replies) : \E j \in 1..Len(replies) :
           /\ i < j
           /\ replies[i].kind = "output"
           /\ replies[i].content = <<accepted[1], accepted[2]>>
           /\ replies[j].kind = "monitor_output"
    /\ last.op = "get_output" /\ last.caller = output_monitor_task
    /\ last.combined = <<accepted[3]>>
    /\ output_queue = << >>

\* C39: a session that is not running is not waiting for input, so /status
\* never shows a stopped session as waiting and a start never begins waiting.
C39_StoppedNotWaiting ==
    /\ (impl = "PTYAgent" /\ ~is_running_flag /\ el.pc = "idle") => ~waiting_for_input
    /\ (impl = "ClineTelegramBot" /\ ~session_active /\ el.pc = "idle") => ~waiting_for_input

\* a request to the API is awaited by some send_command
SendInFlight == \E t \in 1..Len(tasks) : tasks[t].pc = "api_call"

\* user, assistant, user, assistant, ...
Alternates(history) ==
    \A i \in 1..Len(history) :
        history[i].role = (IF i % 2 = 1 THEN "user" ELSE "assistant")

\* C40: outside a send in flight the conversation history of an ACPAgent
\* alternates user and assistant turns and starts with a user turn.
C40_HistoryAlternates ==
    (impl = "ACPAgent" /\ ~SendInFlight) => Alternates(conversation_history)
=============================================================================
